---- MODULE Spec2Model ----
(***************************************************************************)
(* Model of the research subsystem's LangGraph workflow                    *)
(* (develop/ai-tools/backend): the QueryState record, the six stage nodes  *)
(* of workflows/agents.py, the graph of workflows/graph.py with its        *)
(* conditional back-edge, and the streaming loop of api/routes.py that     *)
(* drives the graph and maps the last snapshot to the response; the stage  *)
(* functions applied to wider inputs on their own; and the in-memory TTL   *)
(* cache of utils/cache_utils.py.                                          *)
(*                                                                         *)
(* Scores are floats in the code; here they are integers in tenths, so     *)
(* 0.7 is 7 and 1.0 is 10.                                                 *)
(***************************************************************************)
EXTENDS Integers, Sequences, FiniteSets, TLC

VARIABLES
    MAX_LOOPS,  \* configuration: loop budget read by should_replan
    state,      \* the QueryState the graph threads through the nodes
    node,       \* the node the graph runs next ("START" before a request, "END" after)
    final,      \* run_pipeline's `final`: None or the last snapshot it received
    phase,      \* run_pipeline: "idle", "streaming", "responded", "failed"
    response,   \* the ClientResponse handed to the caller (None before)
    trace,      \* history: the nodes executed so far, in order
    allFailed,  \* history: every upstream call so far failed with a server error
    planned,    \* history: the subquestions of every plan the run has had so far
    fn,         \* a function applied on its own: its name ("" when none is)
    args,       \* ... the arguments it is applied to
    ret,        \* ... None before the call, Some(result) after it
    mc,         \* the MemoryCache object (<<>> when the process has none)
    now,        \* time.time(), in seconds since the cache was built
    last,       \* the last thing that happened to the cache, with its return value
    written,    \* history: per key, the value and expiration of its last put
    evicted,    \* history: keys evicted for capacity since their last put
    lock,       \* the thread inside `with self._lock` ("" when none is)
    threads,    \* per calling thread: its call, its position in it, what it returned
    JWT_TOKEN,  \* routes/rag_routes.py: the module's bearer token ("" for None)
    request,    \* the RAG route: the last request handled, with what it did
    exec        \* the executor's fan-out: its position, its Queue, its workers

runVars == <<MAX_LOOPS, state, node, final, phase, response, trace, allFailed, planned>>
callVars == <<fn, args, ret>>
cacheVars == <<mc, now, last, written, evicted, lock, threads>>
routeVars == <<JWT_TOKEN, request, exec>>
vars == <<runVars, callVars, cacheVars, routeVars>>

\* ---------------------------------------------------------------- bounds
\* Largest loop budget explored; Init draws MAX_LOOPS from 1..MaxLoopsCap.
MaxLoopsCap == 3
\* Longest plan handed to a stage function applied on its own.
MaxPlanLen == 2
\* Longest list handed to dedupe_by_link applied on its own.
MaxItems == 3
\* Longest plan whose every search returns SUBQ_SEARCH_COUNT fresh links.
MaxFanPlan == 4
\* Workers one executor call launches when their interleavings are explored.
MaxWorkers == 4
\* Largest max_size a MemoryCache is built with.
MaxSizeCap == 2
\* The clock stops after MaxTime seconds.
MaxTime == 2
\* Cache operations explored (the statistics count them without bound).
MaxOps == 3
\* Largest max_retries fetch_url is called with, any outcome at each attempt.
MaxRetriesCap == 3
\* max_retries of the calls whose every attempt fails and is retried.
LongRetries == 6

\* -------------------------------------------------- program configuration
MIN_OVERALL == 7
SUBQ_SEARCH_COUNT == 3
MAX_SOURCES_FOR_CITATIONS == 10
\* range(3) of every completion retry loop
MaxAttempts == 3
\* sleep_backoff: time.sleep(45)
sleep_backoff == 45
\* utils/http_utils.py
MAX_RETRIES == 3
RETRY_BACKOFF == 2
MAX_BACKOFF == 45

\* ------------------------------------------------------------ input sets
Questions == {"What causes migraines?"}
SubQs == {"sq-a", "sq-b"}
Links == {"u1"}
\* what an upstream completion call does: answer, raise a rate-limit error
\* (its text holds "429"), raise another error
ErrKinds == {"429", "500"}

\* Optional values: None is the empty sequence, Some(x) a one-element one.
None == <<>>
Some(x) == <<x>>
IsSome(o) == o # <<>>
Get(o) == o[1]

RECURSIVE SeqsUpTo(_, _)
SeqsUpTo(S, n) ==
    IF n = 0 THEN {<<>>}
    ELSE LET shorter == SeqsUpTo(S, n - 1)
         IN  shorter \cup {Append(s, x) : s \in {t \in shorter : Len(t) = n - 1}, x \in S}

Range(s) == {s[i] : i \in 1..Len(s)}

\* Python's s[:k]
Prefix(s, k) == IF k >= Len(s) THEN s ELSE SubSeq(s, 1, k)

\* ------------------------------------------------------------- data model
\* models/langgraph_models.py: EvalRubric with its field defaults
EvalRubric(coverage, grounding, coherence, overall, replan_needed, critique) ==
    [coverage |-> coverage, grounding |-> grounding, coherence |-> coherence,
     overall |-> overall, replan_needed |-> replan_needed, critique |-> critique]

\* models/langgraph_models.py: QueryState(question=...) with every default
QueryState(question) ==
    [question |-> question,
     summary |-> "",
     subqueries |-> <<>>,
     answers |-> <<>>,
     final_answer |-> "",
     evaluation |-> "",
     evaluation_reason |-> "",
     feedback |-> "",
     previous_subqueries |-> <<>>,
     bad_subqueries |-> <<>>,
     loop_count |-> 0,
     web_results |-> <<>>,
     rag_answer |-> "",
     rag_summary |-> "",
     scores |-> None]

\* ------------------------------------------------ completion retry loops
\* One upstream call: kind "ok" with the text (or value) it returned, or the
\* kind of error it raised.
Call(kind, value) == [kind |-> kind, value |-> value]

\* The call sequences a `for attempt in range(3)` loop can consume: every
\* call but the last raised a rate-limit error and was retried; the last one
\* ended the loop (it answered, failed otherwise, or was the third attempt).
\* `blank` is the value field of a call that raised (never read).
CallSeqs(values, blank) ==
    LET outs == {Call("ok", v) : v \in values} \cup {Call(e, blank) : e \in ErrKinds}
    IN  {s \in SeqsUpTo(outs, MaxAttempts) :
            /\ Len(s) >= 1
            /\ \A i \in 1..(Len(s) - 1) : s[i].kind = "429"
            /\ Len(s) = MaxAttempts \/ s[Len(s)].kind # "429"}

\* "429" in str(e): the error texts of the model that hold "429". The text
\* of a JSONDecodeError names the offset of the error ("... (char 429)").
Has429(err) == err \in {"429", "invalid JSON (char 429)"}

\* mutant: a rate-limit error is retried once more
RECURSIVE RetryLoop_four(_, _)
RetryLoop_four(calls, attempt) ==
    LET c == calls[attempt + 1]
    IN  IF c.kind = "ok"
        THEN [ok |-> TRUE, value |-> c.value, err |-> "", attempts |-> attempt + 1]
        ELSE IF Has429(c.kind) /\ attempt < 3
        THEN RetryLoop_four(calls, attempt + 1)
        ELSE [ok |-> FALSE, value |-> c.value, err |-> c.kind, attempts |-> attempt + 1]

\* mutant: every error is retried
RECURSIVE RetryLoop_any(_, _)
RetryLoop_any(calls, attempt) ==
    LET c == calls[attempt + 1]
    IN  IF c.kind = "ok"
        THEN [ok |-> TRUE, value |-> c.value, err |-> "", attempts |-> attempt + 1]
        ELSE IF attempt < 2
        THEN RetryLoop_any(calls, attempt + 1)
        ELSE [ok |-> FALSE, value |-> c.value, err |-> c.kind, attempts |-> attempt + 1]

\* The loop shared by every completion call site:
\*   for attempt in range(3):
\*       try: ... return
\*       except Exception as e:
\*           if "429" in str(e) and attempt < 2: sleep_backoff()
\*           else: <error marker>; return
\* `attempt` is the 0-based loop index.
RECURSIVE RetryLoop(_, _)
RetryLoop(calls, attempt) ==
    LET c == calls[attempt + 1]
    IN  IF c.kind = "ok"
        THEN [ok |-> TRUE, value |-> c.value, err |-> "", attempts |-> attempt + 1]
        ELSE IF Has429(c.kind) /\ attempt < 2
        THEN RetryLoop(calls, attempt + 1)
        ELSE [ok |-> FALSE, value |-> c.value, err |-> c.kind, attempts |-> attempt + 1]

\* f"Error: {e}" and friends: the marker names the error
ErrorMarker(prefix, err) == prefix \o err

\* ------------------------------------------------------------ the stages
\* structured_summarizer: summary from the completion, or "Error: <e>"
structured_summarizer(s, calls) ==
    LET r == RetryLoop(calls, 0)
    IN  IF r.ok THEN [s EXCEPT !.summary = r.value]
        ELSE [s EXCEPT !.summary = ErrorMarker("Error: ", r.err)]

\* mutant: the failing planner shifts the plan as well
planner_shift(s, calls) ==
    LET r == RetryLoop(calls, 0)
    IN  IF r.ok
        THEN [s EXCEPT !.previous_subqueries = s.subqueries,
                       !.subqueries = r.value]
        ELSE [s EXCEPT !.previous_subqueries = s.subqueries,
                       !.subqueries = <<>>]

\* planner: avoid = list(set(state.previous_subqueries + state.bad_subqueries)),
\* the subquestions the prompt asks not to repeat
planner_avoid(s) == Range(s.previous_subqueries) \cup Range(s.bad_subqueries)

\* planner: on success shifts subqueries into previous_subqueries and stores
\* the parsed plan; on failure only empties subqueries
planner(s, calls) ==
    LET r == RetryLoop(calls, 0)
    IN  IF r.ok
        THEN [s EXCEPT !.previous_subqueries = s.subqueries,
                       !.subqueries = r.value]
        ELSE [s EXCEPT !.subqueries = <<>>]

\* ------------------------------------------------- Retrieve: the workers
\* dict.get(key, "") on a record that may lack the key
GetStr(r, key) == IF key \in DOMAIN r THEN r[key] ELSE ""

\* d[key] = value on a dict, adding the key when it is missing
SetKey(r, key, value) ==
    [k \in DOMAIN r \cup {key} |-> IF k = key THEN value ELSE r[k]]

\* str.strip() on the link and query strings of the model
Strip(str) ==
    CASE str = " u1 " -> "u1"
      [] str = " q1 " -> "q1"
      [] str = " " -> ""
      [] OTHER -> str

\* one element of search_with_google_cse's result list
SearchItem(l) == [title |-> "title", link |-> l, url |-> l, snippet |-> "snippet"]

\* search_with_google_cse: the items of the response as result records, or
\* the empty list when the request raised (the error is only logged)
search_with_google_cse(resp) ==
    IF resp.kind # "ok" THEN <<>>
    ELSE [i \in 1..Len(resp.items) |-> SearchItem(resp.items[i])]

\* expand_and_summarize_web(link, query, queue): the records the worker puts
\* on the queue, in order. `fetch` is what fetching the page did: "none"
\* (fetch_url returned None), "pdf", "page", "raise" (fetch raised: the
\* snippet is summarized instead), "crash" (an exception outside the inner
\* handlers). `calls` are the summarization calls. The early `queue.put(link);
\* return` paths run the `finally: queue.put(link)` as well.
expand_and_summarize_web(link, fetch, calls) ==
    LET url == IF GetStr(link, "link") # "" THEN GetStr(link, "link") ELSE GetStr(link, "url")
        title == IF "title" \in DOMAIN link THEN link.title ELSE "Source"
        r == RetryLoop(calls, 0)
    IN  IF fetch = "crash"
        THEN <<SetKey(link, "summary", "Error: crash")>>
        ELSE IF url = ""
        THEN LET rec == SetKey(link, "summary", "Filtered or invalid URL")
             IN  <<rec, rec>>
        ELSE IF fetch = "none"
        THEN LET rec == SetKey(SetKey(link, "summary", "Failed to fetch page."), "title", title)
             IN  <<rec, rec>>
        ELSE IF fetch = "pdf"
        THEN LET rec == SetKey(SetKey(link, "summary", "PDF detected; skipped parsing."), "title", title)
             IN  <<rec, rec>>
        ELSE IF r.ok
        THEN <<SetKey(SetKey(link, "summary", r.value), "title", title)>>
        ELSE <<SetKey(link, "summary", ErrorMarker("Error: ", r.err))>>

\* every order in which the puts of two threads can reach one Queue
RECURSIVE Merges(_, _)
Merges(a, b) ==
    IF a = <<>> THEN {b}
    ELSE IF b = <<>> THEN {a}
    ELSE {<<a[1]>> \o m : m \in Merges(Tail(a), b)}
         \cup {<<b[1]>> \o m : m \in Merges(a, Tail(b))}

\* the possible contents of the Queue once all workers are joined
RECURSIVE QueueContents(_)
QueueContents(puts) ==
    IF puts = <<>> THEN {<<>>}
    ELSE UNION {Merges(puts[1], q) : q \in QueueContents(Tail(puts))}

\* dedupe_by_link: first record of every non-empty stripped link, in order
RECURSIVE dedupe_loop(_, _, _)
dedupe_loop(items, seen, out) ==
    IF items = <<>> THEN out
    ELSE LET r == items[1]
             k == Strip(IF GetStr(r, "link") # "" THEN GetStr(r, "link") ELSE GetStr(r, "url"))
         IN  IF k # "" /\ k \notin seen
             THEN dedupe_loop(Tail(items), seen \cup {k}, Append(out, r))
             ELSE dedupe_loop(Tail(items), seen, out)

\* mutant: dropping a repeated link also forgets that it was seen
RECURSIVE dedupe_loop_toggle(_, _, _)
dedupe_loop_toggle(items, seen, out) ==
    IF items = <<>> THEN out
    ELSE LET r == items[1]
             k == Strip(IF GetStr(r, "link") # "" THEN GetStr(r, "link") ELSE GetStr(r, "url"))
         IN  IF k # "" /\ k \notin seen
             THEN dedupe_loop_toggle(Tail(items), seen \cup {k}, Append(out, r))
             ELSE dedupe_loop_toggle(Tail(items), seen \ {k}, out)

dedupe_by_link_toggle(items) == dedupe_loop_toggle(items, {}, <<>>)

\* mutant: the links are compared as written, without strip()
RECURSIVE dedupe_loop_nostrip(_, _, _)
dedupe_loop_nostrip(items, seen, out) ==
    IF items = <<>> THEN out
    ELSE LET r == items[1]
             k == IF GetStr(r, "link") # "" THEN GetStr(r, "link") ELSE GetStr(r, "url")
         IN  IF k # "" /\ k \notin seen
             THEN dedupe_loop_nostrip(Tail(items), seen \cup {k}, Append(out, r))
             ELSE dedupe_loop_nostrip(Tail(items), seen, out)

dedupe_by_link_nostrip(items) == dedupe_loop_nostrip(items, {}, <<>>)

dedupe_by_link(items) == dedupe_loop(items, {}, <<>>)

\* for i, r in enumerate(web_results[:MAX_SOURCES_FOR_CITATIONS]): r["n"] = i + 1
NumberSources(results) ==
    [i \in 1..Len(results) |->
        IF i <= MAX_SOURCES_FOR_CITATIONS THEN SetKey(results[i], "n", i) ELSE results[i]]

\* ------------------------------------------------------- Retrieve: executor
\* The RAG block of executor. `rag` is what the upstream did: http "ok" with
\* output_text, or "error" (status error, timeout, connection failure);
\* timeout says that asyncio.wait_for gave up on get_concise_summary; calls
\* are the completion calls of get_concise_summary.
LongAnswer == "an answer of more than 200 characters"
LongAnswerHead == "the first 200 characters of the answer"

\* rag_answer[:200] on the answer texts of the model: only LongAnswer is
\* longer than 200 characters
Slice200(text) == IF text = LongAnswer THEN LongAnswerHead ELSE text

executor_rag(s, rag) ==
    LET r == RetryLoop(rag.calls, 0)
    IN  IF rag.http # "ok"
        THEN [s EXCEPT !.rag_answer = ErrorMarker("RAG Error: ", rag.http),
                       !.rag_summary = "RAG summary failed."]
        ELSE IF rag.timeout
        THEN [s EXCEPT !.rag_answer = rag.output_text,
                       !.rag_summary = IF rag.output_text # ""
                                       THEN Slice200(rag.output_text) \o "..."
                                       ELSE "No summary available"]
        ELSE [s EXCEPT !.rag_answer = rag.output_text,
                       !.rag_summary = IF r.ok THEN r.value
                                       ELSE "Summary not available due to API error."]

\* One pass of `for subq in state.subqueries`: what it appends to aggregated.
\* `search` is a record: links (the result list of search_with_google_cse,
\* empty when the search failed), failAt (0, or the index of the link whose
\* Thread.start() raised), work (per link, what its worker did), queue (the
\* order in which the puts reached the Queue).
\* mutant: every link the search returned gets a worker
SubqLinks_uncapped(search) == search.links

SubqLinks(search) == Prefix(search.links, SUBQ_SEARCH_COUNT)

SubqStarted(search) ==
    IF search.failAt = 0 THEN SubqLinks(search)
    ELSE Prefix(SubqLinks(search), search.failAt - 1)

SubqPuts(search) ==
    [i \in 1..Len(SubqStarted(search)) |->
        expand_and_summarize_web(SubqStarted(search)[i], search.work[i].fetch, search.work[i].calls)]

executor_subq(subq, search) ==
    (IF search.failAt # 0
     THEN <<[title |-> subq, link |-> "", summary |-> "Websearch error: start"]>>
     ELSE <<>>) \o search.queue

RECURSIVE executor_aggregate(_, _, _)
executor_aggregate(subqueries, searches, i) ==
    IF i > Len(subqueries) THEN <<>>
    ELSE executor_subq(subqueries[i], searches[i]) \o executor_aggregate(subqueries, searches, i + 1)

\* mutant: the citation indices are assigned before deduplication
executor_number_first(s, rag, searches) ==
    LET s1 == executor_rag(s, rag)
        aggregated == executor_aggregate(s.subqueries, searches, 1)
    IN  [s1 EXCEPT !.web_results = dedupe_by_link(NumberSources(aggregated))]

\* mutant: a failed RAG call ends the stage before the fan-out
executor_rag_first(s, rag, searches) ==
    LET s1 == executor_rag(s, rag)
        aggregated == executor_aggregate(s.subqueries, searches, 1)
    IN  IF rag.http # "ok" \/ rag.timeout THEN s1
        ELSE [s1 EXCEPT !.web_results = NumberSources(dedupe_by_link(aggregated))]

\* executor: RAG on the parent question, the per-subquestion fan-out, then
\* deduplication and numbering
executor(s, rag, searches) ==
    LET s1 == executor_rag(s, rag)
        aggregated == executor_aggregate(s.subqueries, searches, 1)
    IN  [s1 EXCEPT !.web_results = NumberSources(dedupe_by_link(aggregated))]

\* ------------------------------------------------------ AnswerSubquestions
\* the `for subquery in state.subqueries` loop filling the local dict
RECURSIVE answers_loop(_, _, _, _)
answers_loop(subqueries, calls, i, answers) ==
    IF i > Len(subqueries) THEN answers
    ELSE LET r == RetryLoop(calls[i], 0)
             v == IF r.ok THEN r.value ELSE ErrorMarker("Gemini error: ", r.err)
         IN  answers_loop(subqueries, calls, i + 1, SetKey(answers, subqueries[i], v))

\* mutant: the first failing subquestion ends the loop
RECURSIVE answers_loop_abort(_, _, _, _)
answers_loop_abort(subqueries, calls, i, answers) ==
    IF i > Len(subqueries) THEN answers
    ELSE LET r == RetryLoop(calls[i], 0)
         IN  IF r.ok
             THEN answers_loop_abort(subqueries, calls, i + 1,
                                     SetKey(answers, subqueries[i], r.value))
             ELSE SetKey(answers, subqueries[i], ErrorMarker("Gemini error: ", r.err))

answer_subquestions_abort(s, calls) ==
    [s EXCEPT !.answers = answers_loop_abort(s.subqueries, calls, 1, <<>>)]

\* mutant: fills state.answers in place instead of a fresh dict
answer_subquestions_merge(s, calls) ==
    [s EXCEPT !.answers = answers_loop(s.subqueries, calls, 1, s.answers)]

answer_subquestions(s, calls) ==
    [s EXCEPT !.answers = answers_loop(s.subqueries, calls, 1, <<>>)]

\* -------------------------------------------------------------- Synthesize
\* mutant: the synthesizer also clears the feedback it has used
synthesizer_clear(s, calls) ==
    LET r == RetryLoop(calls, 0)
    IN  IF r.ok THEN [s EXCEPT !.final_answer = r.value, !.feedback = ""]
        ELSE [s EXCEPT !.final_answer = ErrorMarker("Error: ", r.err), !.feedback = ""]

synthesizer(s, calls) ==
    LET r == RetryLoop(calls, 0)
    IN  IF r.ok THEN [s EXCEPT !.final_answer = r.value]
        ELSE [s EXCEPT !.final_answer = ErrorMarker("Error: ", r.err)]

\* ---------------------------------------------------------------- Evaluate
\* One pass of the evaluator's try block. `a` is what the JSON-completion
\* service did: raw is "json" (valid JSON), "notjson", "empty", or an error
\* kind; repair is what the repair call returned when raw was not JSON
\* ("notjson at 429": not JSON either, the parser failing at offset 429);
\* data is the parsed object, fields the outcome of building the rubric from
\* it ("ok", or "bad" when a value cannot be converted).
\* Result: kind "ok" with the rubric, or the text of the exception raised.
eval_attempt(a) ==
    LET parsed ==
            IF a.raw = "json" THEN "ok"
            ELSE IF a.raw = "empty" THEN "Empty eval response"
            ELSE IF a.raw = "notjson"
            THEN (IF a.repair = "json" THEN "ok"
                  ELSE IF a.repair = "notjson" THEN "invalid JSON"
                  ELSE IF a.repair = "notjson at 429" THEN "invalid JSON (char 429)"
                  ELSE a.repair)
            ELSE a.raw
    IN  IF parsed # "ok" THEN Call(parsed, a.data)
        ELSE IF a.fields # "ok" THEN Call("bad rubric", a.data)
        ELSE Call("ok", EvalRubric(a.data.coverage, a.data.grounding, a.data.coherence,
                                   a.data.overall, a.data.replan_needed, a.data.critique))

\* the completion calls one pass issues: the rubric call, and the repair call
\* when the raw text was not JSON
eval_attempt_calls(a) == IF a.raw = "notjson" THEN 2 ELSE 1

\* mutant: strict comparison against the threshold
evaluator_verdict_strict(s, rubric) ==
    IF rubric.overall > MIN_OVERALL
    THEN [s EXCEPT !.scores = Some(rubric), !.evaluation = "yes",
                   !.feedback = "", !.bad_subqueries = <<>>]
    ELSE [s EXCEPT !.scores = Some(rubric), !.evaluation = "no",
                   !.feedback = IF rubric.critique # "" THEN rubric.critique
                                ELSE "Needs improvement",
                   !.bad_subqueries = s.subqueries]

\* mutant: the critique is used as feedback without the default string
evaluator_verdict_nodefault(s, rubric) ==
    IF rubric.overall >= MIN_OVERALL
    THEN [s EXCEPT !.scores = Some(rubric), !.evaluation = "yes",
                   !.feedback = "", !.bad_subqueries = <<>>]
    ELSE [s EXCEPT !.scores = Some(rubric), !.evaluation = "no",
                   !.feedback = rubric.critique,
                   !.bad_subqueries = s.subqueries]

\* evaluator, a parsed rubric: the verdict against MIN_OVERALL
evaluator_verdict(s, rubric) ==
    IF rubric.overall >= MIN_OVERALL
    THEN [s EXCEPT !.scores = Some(rubric),
                   !.evaluation = "yes",
                   !.feedback = "",
                   !.bad_subqueries = <<>>]
    ELSE [s EXCEPT !.scores = Some(rubric),
                   !.evaluation = "no",
                   !.feedback = IF rubric.critique # "" THEN rubric.critique
                                ELSE "Needs improvement",
                   !.bad_subqueries = s.subqueries]

\* mutant: the except branch stores the rubric with the model's defaults
\* (replan_needed False) and leaves the verdict alone
evaluator_degrade_defaults(s, err) ==
    LET critique == ErrorMarker("Evaluation failed: ", err)
    IN  [s EXCEPT !.scores = Some(EvalRubric(0, 0, 0, 0, FALSE, critique)),
                  !.feedback = critique,
                  !.bad_subqueries = s.subqueries]

\* evaluator, the final except branch: the synthetic zero-score rubric
evaluator_degrade(s, err) ==
    LET critique == ErrorMarker("Evaluation failed: ", err)
    IN  [s EXCEPT !.scores = Some(EvalRubric(0, 0, 0, 0, TRUE, critique)),
                  !.evaluation = "no",
                  !.feedback = critique,
                  !.bad_subqueries = s.subqueries]

\* the body of evaluator after the loop_count increment: the retry loop
evaluator_loop(s, attempts) ==
    LET r == RetryLoop([i \in 1..Len(attempts) |-> eval_attempt(attempts[i])], 0)
    IN  IF r.ok THEN evaluator_verdict(s, r.value) ELSE evaluator_degrade(s, r.err)

\* state.loop_count += 1
evaluator_count(s) == [s EXCEPT !.loop_count = s.loop_count + 1]

\* mutant: the counter is incremented only when the rubric call succeeded
evaluator_count_on_success(s, attempts) ==
    IF RetryLoop([i \in 1..Len(attempts) |-> eval_attempt(attempts[i])], 0).ok
    THEN evaluator_loop(evaluator_count(s), attempts)
    ELSE evaluator_loop(s, attempts)

\* mutant: reaching the loop cap turns the verdict into "yes"
evaluator_cap_yes(s, attempts) ==
    LET r == evaluator_loop(evaluator_count(s), attempts)
    IN  IF r.loop_count >= MAX_LOOPS THEN [r EXCEPT !.evaluation = "yes"] ELSE r

evaluator(s, attempts) == evaluator_loop(evaluator_count(s), attempts)

\* mutant: the loop cap is not checked
should_replan_nocap(s, maxLoops) ==
    IF IsSome(s.scores) /\ Get(s.scores).overall < MIN_OVERALL THEN "replan" ELSE "end"

\* mutant: the rubric's replan_needed flag decides instead of the score
should_replan_flag(s, maxLoops) ==
    IF s.loop_count >= maxLoops THEN "end"
    ELSE IF IsSome(s.scores) /\ Get(s.scores).replan_needed THEN "replan"
    ELSE "end"

\* mutant: the cap is hit one pass early
should_replan_early(s, maxLoops) ==
    IF s.loop_count + 1 >= maxLoops THEN "end"
    ELSE IF IsSome(s.scores) /\ Get(s.scores).overall < MIN_OVERALL THEN "replan"
    ELSE "end"

\* mutant: the cap lets one more pass through
should_replan_late(s, maxLoops) ==
    IF s.loop_count > maxLoops THEN "end"
    ELSE IF IsSome(s.scores) /\ Get(s.scores).overall < MIN_OVERALL THEN "replan"
    ELSE "end"

\* should_replan: the conditional edge after evaluator
should_replan(s, maxLoops) ==
    IF s.loop_count >= maxLoops THEN "end"
    ELSE IF IsSome(s.scores) /\ Get(s.scores).overall < MIN_OVERALL THEN "replan"
    ELSE "end"

\* ------------------------------------------------------- upstream behaviour
\* Texts the completion service returns ((resp.text or "").strip())
SummaryTexts == {"summary"}
AnswerTexts == {"answer [1]"}
FinalTexts == {"final [1]"}
WebSummaries == {"page summary"}
RagTexts == {"Migraines are caused by X"}
RagSummaries == {"rag summary"}

\* parsed plans: lists of subquestions
Plans == {<<sq>> : sq \in SubQs} \cup {<<>>}

\* what the RAG gateway and the summary of its answer can do
RagOutcomes ==
    {[http |-> "500", output_text |-> "", timeout |-> FALSE, calls |-> <<Call("500", "")>>]}
    \cup {[http |-> "ok", output_text |-> t, timeout |-> FALSE, calls |-> <<Call("ok", x)>>] :
        t \in RagTexts, x \in RagSummaries}

\* what one fetch-and-summarize worker can meet
WorkerOutcomes ==
    {[fetch |-> "page", calls |-> <<Call("ok", x)>>] : x \in WebSummaries}

\* result lists of the search gateway (empty when the search failed)
SearchResults ==
    {[i \in 1..Len(ls) |-> SearchItem(ls[i])] : ls \in {<<>>} \cup {<<l>> : l \in Links}}

\* everything one subquestion's fan-out can meet
SubqSearches ==
    UNION {UNION {UNION {
        {[links |-> ls, failAt |-> fa, work |-> w, queue |-> q] :
            q \in QueueContents(SubqPuts([links |-> ls, failAt |-> fa, work |-> w]))} :
        w \in [1..(IF fa = 0 THEN Len(Prefix(ls, SUBQ_SEARCH_COUNT)) ELSE fa - 1) -> WorkerOutcomes]} :
        fa \in 0..Len(Prefix(ls, SUBQ_SEARCH_COUNT))} :
        ls \in SearchResults}

\* parsed rubric objects (missing keys read as their defaults)
Overalls == {6, 7}
Critiques == {"", "weak grounding"}
RubricJsons ==
    {[coverage |-> 5, grounding |-> 5, coherence |-> 5,
      overall |-> o, replan_needed |-> b, critique |-> c] :
        o \in Overalls, b \in BOOLEAN, c \in Critiques}
SpecRubrics == {d \in RubricJsons : d.replan_needed = (d.critique # "")}
BlankJson == [coverage |-> 0, grounding |-> 0, coherence |-> 0,
              overall |-> 0, replan_needed |-> FALSE, critique |-> ""]

\* what one pass of the evaluator's try block can meet
EvalAttempts ==
    {[raw |-> "json", repair |-> "", data |-> d, fields |-> "ok"] : d \in SpecRubrics}
    \cup {[raw |-> r, repair |-> "", data |-> BlankJson, fields |-> "ok"] :
            r \in {"empty"} \cup ErrKinds}
    \cup {[raw |-> "notjson", repair |-> "json", data |-> d, fields |-> "ok"] : d \in SpecRubrics}
    \cup {[raw |-> "notjson", repair |-> r, data |-> BlankJson, fields |-> "ok"] :
            r \in {"notjson"} \cup ErrKinds}

EvalAttemptSeqs ==
    {s \in SeqsUpTo(EvalAttempts, MaxAttempts) :
        /\ Len(s) >= 1
        /\ \A i \in 1..(Len(s) - 1) : eval_attempt(s[i]).kind = "429"
        /\ Len(s) = MaxAttempts \/ eval_attempt(s[Len(s)]).kind # "429"}

\* the call sequences of each completion call site
SummaryCalls == CallSeqs(SummaryTexts, "")
PlanCalls == CallSeqs(Plans, <<>>)
AnswerCalls == CallSeqs(AnswerTexts, "")
FinalCalls == CallSeqs(FinalTexts, "")

\* ------------------------------------------------- the graph and the route
\* mutant: the back-edge re-enters at the executor
NextNode_skip(n, s, maxLoops) ==
    CASE n = "summarizer" -> "planner"
      [] n = "planner" -> "executor"
      [] n = "executor" -> "answer_subqs"
      [] n = "answer_subqs" -> "synthesizer"
      [] n = "synthesizer" -> "evaluator"
      [] n = "evaluator" -> IF should_replan(s, maxLoops) = "replan" THEN "executor" ELSE "END"

\* create_workflow_graph: the edges, the conditional one through should_replan
NextNode(n, s, maxLoops) ==
    CASE n = "summarizer" -> "planner"
      [] n = "planner" -> "executor"
      [] n = "executor" -> "answer_subqs"
      [] n = "answer_subqs" -> "synthesizer"
      [] n = "synthesizer" -> "evaluator"
      [] n = "evaluator" -> IF should_replan(s, maxLoops) = "replan" THEN "planner" ELSE "END"

\* run_pipeline: the two early exits of the streaming loop
EarlyExit(snapshot) ==
    \/ /\ IsSome(snapshot.scores)
       /\ Get(snapshot.scores).overall >= MIN_OVERALL
       /\ ~Get(snapshot.scores).replan_needed
    \/ snapshot.evaluation = "yes"

\* run_pipeline: the ClientResponse built from final
ClientResponse(f) ==
    [question |-> f.question, summary |-> f.summary, rag_answer |-> f.rag_answer,
     rag_summary |-> f.rag_summary, web_results |-> f.web_results,
     subqueries |-> f.subqueries, subquery_answers |-> f.answers,
     final_answer |-> f.final_answer, evaluation |-> f.evaluation,
     feedback |-> f.feedback, rubric |-> f.scores]

\* run_pipeline after the loop: no final state is a RuntimeError, mapped to
\* HTTP 500; otherwise the ClientResponse is built from final
Finish(f) ==
    IF ~IsSome(f) THEN [phase |-> "failed", response |-> None]
    ELSE [phase |-> "responded", response |-> Some(ClientResponse(Get(f)))]

\* run_pipeline: astream(initial, config={"recursion_limit": MAX_LOOPS * 8}),
\* the number of steps the engine runs before it raises GraphRecursionError
recursion_limit(maxLoops) == maxLoops * 8

\* One step of `async for step in compiled_graph.astream(...)`: node n has
\* produced snapshot s2; the graph picks the next node; the loop body stores
\* the snapshot in final and tests the early exits; when the stream is
\* exhausted or the loop breaks, run_pipeline finishes with final.
\* `failed` says that every upstream call of the stage failed. When the
\* engine has run recursion_limit steps and the graph has not reached END,
\* astream raises GraphRecursionError, which run_pipeline's except clause
\* turns into HTTP 500.
Step(n, s2, failed) ==
    LET nxt == NextNode(n, s2, MAX_LOOPS)
        over == EarlyExit(s2) \/ nxt = "END"
        out_of_steps == ~over /\ Len(trace) + 1 >= recursion_limit(MAX_LOOPS)
    IN  /\ state' = s2
        /\ trace' = Append(trace, n)
        /\ node' = nxt
        /\ final' = Some(s2)
        /\ phase' = IF out_of_steps THEN "failed"
                    ELSE IF over THEN Finish(final').phase ELSE "streaming"
        /\ response' = IF over THEN Finish(final').response ELSE None
        /\ allFailed' = (allFailed /\ failed)
        /\ planned' = planned \cup Range(s2.subqueries)
        /\ UNCHANGED <<MAX_LOOPS, callVars, cacheVars, routeVars>>

\* every call of a retry loop failed with a server error
CallsFailed(calls) == \A i \in 1..Len(calls) : calls[i].kind = "500"

\* the RAG call and every search and fetch of a Retrieve failed
RetrieveFailed(rag, searches) ==
    /\ rag.http = "500"
    /\ \A i \in 1..Len(searches) : searches[i].links = <<>>

Running(n) == phase = "streaming" /\ node = n

\* run_pipeline up to the first step: initial = QueryState(question=query)
Request ==
    /\ phase = "idle"
    /\ \E q \in Questions : state' = QueryState(q)
    /\ node' = "summarizer"
    /\ phase' = "streaming"
    /\ UNCHANGED <<MAX_LOOPS, final, response, trace, allFailed, planned, callVars, cacheVars, routeVars>>

Summarize ==
    /\ Running("summarizer")
    /\ \E calls \in SummaryCalls :
          Step("summarizer", structured_summarizer(state, calls), CallsFailed(calls))

Plan ==
    /\ Running("planner")
    /\ \E calls \in PlanCalls :
          Step("planner", planner(state, calls), CallsFailed(calls))

Retrieve ==
    /\ Running("executor")
    /\ \E rag \in RagOutcomes :
       \E searches \in [1..Len(state.subqueries) -> SubqSearches] :
          Step("executor", executor(state, rag, searches), RetrieveFailed(rag, searches))

AnswerSubquestions ==
    /\ Running("answer_subqs")
    /\ \E calls \in [1..Len(state.subqueries) -> AnswerCalls] :
          Step("answer_subqs", answer_subquestions(state, calls),
               \A i \in 1..Len(calls) : CallsFailed(calls[i]))

Synthesize ==
    /\ Running("synthesizer")
    /\ \E calls \in FinalCalls :
          Step("synthesizer", synthesizer(state, calls), CallsFailed(calls))

Evaluate ==
    /\ Running("evaluator")
    /\ \E attempts \in EvalAttemptSeqs :
          Step("evaluator", evaluator(state, attempts),
               \A i \in 1..Len(attempts) : attempts[i].raw = "500")

\* no function is applied on its own
NoCall == fn = "" /\ args = <<>> /\ ret = None

\* the process holds no MemoryCache
NoThreads == lock = "" /\ threads = <<>>
NoRoute == JWT_TOKEN = "" /\ request = None /\ exec = None
NoCache ==
    /\ mc = None /\ now = 0 /\ last = None /\ written = <<>> /\ evicted = {}
    /\ NoThreads
    /\ NoRoute

\* the process after create_app: configured, no request yet
Init ==
    /\ MAX_LOOPS \in 1..MaxLoopsCap
    /\ state = QueryState("")
    /\ node = "START"
    /\ final = None
    /\ phase = "idle"
    /\ response = None
    /\ trace = <<>>
    /\ allFailed = TRUE
    /\ planned = {}
    /\ NoCall
    /\ NoCache

Next ==
    \/ Request
    \/ Summarize
    \/ Plan
    \/ Retrieve
    \/ AnswerSubquestions
    \/ Synthesize
    \/ Evaluate

Spec == Init /\ [][Next]_vars

\* the engine runs every stage to completion: each upstream call is bounded
\* by its own timeout, so a started stage always ends
FairSpec == Spec /\ WF_vars(Next)

\* ============================================ stage functions on their own
\* no request is being served
NoRun ==
    /\ MAX_LOOPS = 1
    /\ state = QueryState("")
    /\ node = "START"
    /\ final = None
    /\ phase = "idle"
    /\ response = None
    /\ trace = <<>>
    /\ allFailed = TRUE
    /\ planned = {}

\* the call of function f on args returns `result`
Apply(f, result) ==
    /\ fn = f
    /\ ret = None
    /\ ret' = Some(result)
    /\ UNCHANGED <<fn, args, runVars, cacheVars, routeVars>>

\* ---------------------------------------------- answer_subquestions alone
\* plans of up to MaxPlanLen subquestions, repeated texts included
WidePlans == SeqsUpTo(SubQs, MaxPlanLen)

\* the answers the state carries from the iteration before
PriorAnswers == {<<>>, SetKey(<<>>, "sq-a", "old answer")}

\* completion calls that tell the answers apart
WideAnswerCalls == CallSeqs({"answer 1", "answer 2"}, "")

\* the calls of answer_subquestions on a plan of n subquestions
AnswerInputs(n) ==
    UNION {{[state |-> [QueryState(q) EXCEPT !.subqueries = p, !.answers = a],
             calls |-> cs] :
                cs \in [1..n -> WideAnswerCalls]} :
           q \in Questions, p \in {w \in WidePlans : Len(w) = n}, a \in PriorAnswers}

AnswerInit ==
    /\ NoRun
    /\ NoCache
    /\ fn = "answer_subquestions"
    /\ \E n \in 0..MaxPlanLen : args \in AnswerInputs(n)
    /\ ret = None

ApplyAnswerSubquestions ==
    Apply("answer_subquestions", answer_subquestions(args.state, args.calls))

AnswerNext == ApplyAnswerSubquestions

AnswerSpec == AnswerInit /\ [][AnswerNext]_vars

\* --------------------------------------------------- dedupe_by_link alone
\* records as the aggregation holds them: search items whose worker has
\* run, with the link written plainly or padded, only a url, no link at
\* all, or the placeholder of a subquestion
DedupeRecords ==
    UNION {{[title |-> ti, link |-> "u1", url |-> "u1", summary |-> "s"],
            [title |-> ti, link |-> " u1 ", url |-> " u1 ", summary |-> "s"],
            [title |-> ti, link |-> "u2", url |-> "u2", summary |-> "s"],
            [title |-> ti, link |-> "", url |-> "u1", summary |-> "s"],
            [title |-> ti, url |-> "u2", summary |-> "s"],
            [title |-> ti, link |-> " ", summary |-> "s"],
            [title |-> ti, link |-> "", summary |-> "Websearch error: start"]} :
           ti \in {"t1", "t2"}}

DedupeInit ==
    /\ NoRun
    /\ NoCache
    /\ fn = "dedupe_by_link"
    /\ args \in SeqsUpTo(DedupeRecords, MaxItems)
    /\ ret = None

ApplyDedupeByLink == Apply("dedupe_by_link", dedupe_by_link(args))

DedupeNext == ApplyDedupeByLink

DedupeSpec == DedupeInit /\ [][DedupeNext]_vars

\* --------------------------------------------------------- executor alone
\* the plan of n subquestions
FanPlan(n) == [i \in 1..n |-> "sq-" \o ToString(i)]

\* the j-th link only the search of subquestion i returns
FreshLink(i, j) == "u" \o ToString(i) \o "." \o ToString(j)

\* what a fetch-and-summarize worker can meet: every path through it
WideWorkerOutcomes ==
    {[fetch |-> f, calls |-> <<Call("ok", "page summary")>>] :
        f \in {"page", "none", "pdf", "raise", "crash"}}
    \cup {[fetch |-> "page", calls |-> <<Call("500", "")>>],
          [fetch |-> "page", calls |-> <<Call("429", ""), Call("429", ""), Call("429", "")>>]}

\* One subquestion's fan-out for the search response resp: Thread.start()
\* fails at one of failAts (0: never), the workers meet outcomes of W, and
\* their puts reach the Queue in any order.
SearchesOf(resp, failAts, W) ==
    LET ls == search_with_google_cse(resp)
        n == Len(Prefix(ls, SUBQ_SEARCH_COUNT))
    IN  UNION {UNION {
            {[cse |-> resp, links |-> ls, failAt |-> fa, work |-> w, queue |-> q] :
                q \in QueueContents(SubqPuts([links |-> ls, failAt |-> fa, work |-> w]))} :
            w \in [1..(IF fa = 0 THEN n ELSE fa - 1) -> W]} :
            fa \in {f \in failAts : f <= n}}

CseOk(items) == [kind |-> "ok", items |-> items]
CseError == [kind |-> "error", items |-> <<>>]
PageOk == {[fetch |-> "page", calls |-> <<Call("ok", "page summary")>>]}

\* short plans: the search fails, finds nothing, finds one link (shared by
\* the subquestions, plain, padded or empty) whose worker takes any path, or
\* finds two links with Thread.start() failing at either
DeepSearches ==
    SearchesOf(CseError, {0}, PageOk)
    \cup SearchesOf(CseOk(<<>>), {0}, PageOk)
    \cup SearchesOf(CseOk(<<"u1">>), {0}, WideWorkerOutcomes)
    \cup SearchesOf(CseOk(<<"">>), {0}, PageOk)
    \cup SearchesOf(CseOk(<<" u1 ">>), {0}, PageOk)
    \cup SearchesOf(CseOk(<<"u1", "u2">>), {0, 1, 2}, PageOk)

\* long plans: the search of subquestion i fails or returns
\* SUBQ_SEARCH_COUNT links of its own
FanSearches(i) ==
    SearchesOf(CseError, {0}, PageOk)
    \cup SearchesOf(CseOk([j \in 1..SUBQ_SEARCH_COUNT |-> FreshLink(i, j)]), {0}, PageOk)

\* the puts of the workers of one subquestion, in the order of their start
RECURSIVE InStartOrder(_)
InStartOrder(puts) ==
    IF puts = <<>> THEN <<>> ELSE puts[1] \o InStartOrder(Tail(puts))

\* the same, the workers' puts reaching the Queue in the order of their start
FanSearchesInOrder(i) ==
    {s \in FanSearches(i) : s.queue = InStartOrder(SubqPuts(s))}

RECURSIVE FanInOrderSeqs(_)
FanInOrderSeqs(n) ==
    IF n = 0 THEN {<<>>}
    ELSE {Append(ss, x) : ss \in FanInOrderSeqs(n - 1), x \in FanSearchesInOrder(n)}

\* the fan-outs of a long plan of n subquestions: the puts arrive in any
\* order for the last subquestion and in start order for the others
FanSearchSeqs(n) ==
    {Append(ss, x) : ss \in FanInOrderSeqs(n - 1), x \in FanSearches(n)}

\* what the RAG call can do beyond RagOutcomes: it times out or cannot
\* connect, or it answers (with a short, an empty or a long text) and the
\* summary of the answer does not arrive within the wait
WideRagOutcomes ==
    RagOutcomes
    \cup {[http |-> h, output_text |-> "", timeout |-> FALSE, calls |-> <<Call("ok", x)>>] :
            h \in {"timeout", "connection"}, x \in RagSummaries}
    \cup {[http |-> "ok", output_text |-> a, timeout |-> TRUE, calls |-> <<Call("ok", x)>>] :
            a \in RagTexts \cup {"", LongAnswer}, x \in RagSummaries}

RetrieveState(q, n) == [QueryState(q) EXCEPT !.subqueries = FanPlan(n)]

\* the calls of executor on a plan of n subquestions: what the RAG call does
\* and what the fan-out of each subquestion meets
RetrieveRags(n) ==
    IF n <= MaxPlanLen THEN WideRagOutcomes ELSE {r \in RagOutcomes : r.http = "ok"}

RetrieveSearches(n) ==
    IF n <= MaxPlanLen THEN [1..n -> DeepSearches] ELSE FanSearchSeqs(n)

RetrieveInit ==
    /\ NoRun
    /\ NoCache
    /\ fn = "executor"
    /\ \E n \in 0..MaxFanPlan, q \in Questions :
         \E rag \in RetrieveRags(n), ss \in RetrieveSearches(n) :
            args = [state |-> RetrieveState(q, n), rag |-> rag, searches |-> ss]
    /\ ret = None

ApplyExecutor == Apply("executor", executor(args.state, args.rag, args.searches))

RetrieveNext == ApplyExecutor

RetrieveSpec == RetrieveInit /\ [][RetrieveNext]_vars

\* ------------------------------------------- the completion call sites alone
\* the failures of an upstream completion call: rate limit, server error,
\* connection error, timeout
WideErrKinds == {"429", "500", "connection", "timeout"}

\* What the upstream does at each successive call of one call site, one
\* call more than the loop can make: it answers `value` or raises.
Scripts(value, blank) ==
    [1..(MaxAttempts + 1) ->
        {Call("ok", value)} \cup {Call(e, blank) : e \in WideErrKinds}]

\* the rubric the JSON-completion service returns when it answers
ScriptRubric ==
    [coverage |-> 5, grounding |-> 5, coherence |-> 5,
     overall |-> 7, replan_needed |-> FALSE, critique |-> ""]

\* the evaluator's passes under a script: valid JSON, or the call raises
EvalScript(script) ==
    [i \in 1..Len(script) |->
        IF script[i].kind = "ok"
        THEN [raw |-> "json", repair |-> "", data |-> script[i].value, fields |-> "ok"]
        ELSE [raw |-> script[i].kind, repair |-> "", data |-> BlankJson, fields |-> "ok"]]

\* the state a stage receives: one subquestion planned
SiteState(q) == [QueryState(q) EXCEPT !.subqueries = <<"sq-a">>]

\* the call sites and what their completion returns
SiteValues ==
    [structured_summarizer |-> "summary",
     planner |-> <<"sq-b">>,
     answer_subquestions |-> "answer [1]",
     synthesizer |-> "final [1]",
     evaluator |-> ScriptRubric,
     expand_and_summarize_web |-> "page summary"]

SiteBlank(site) ==
    CASE site = "planner" -> <<>>
      [] site = "evaluator" -> BlankJson
      [] OTHER -> ""

SiteInputs(site) ==
    {[state |-> SiteState(q), script |-> s] :
        q \in Questions, s \in Scripts(SiteValues[site], SiteBlank(site))}

SiteInit ==
    /\ NoRun
    /\ NoCache
    /\ fn \in DOMAIN SiteValues
    /\ args \in SiteInputs(fn)
    /\ ret = None

\* what a call site did: its result, the attempts its loop made and the
\* seconds it slept in sleep_backoff (once per retry)
Site(out, loop) ==
    [out |-> out, attempts |-> loop.attempts, slept |-> (loop.attempts - 1) * sleep_backoff]

ApplySummarizer ==
    Apply("structured_summarizer",
          Site(structured_summarizer(args.state, args.script), RetryLoop(args.script, 0)))

ApplyPlanner ==
    Apply("planner", Site(planner(args.state, args.script), RetryLoop(args.script, 0)))

ApplyAnswers ==
    Apply("answer_subquestions",
          Site(answer_subquestions(args.state, <<args.script>>), RetryLoop(args.script, 0)))

ApplySynthesizer ==
    Apply("synthesizer", Site(synthesizer(args.state, args.script), RetryLoop(args.script, 0)))

ApplyEvaluator ==
    Apply("evaluator",
          Site(evaluator(args.state, EvalScript(args.script)),
               RetryLoop([i \in 1..Len(args.script) |->
                            eval_attempt(EvalScript(args.script)[i])], 0)))

ApplyPageSummarizer ==
    Apply("expand_and_summarize_web",
          Site(expand_and_summarize_web(SearchItem("u1"), "page", args.script),
               RetryLoop(args.script, 0)))

SiteNext ==
    \/ ApplySummarizer
    \/ ApplyPlanner
    \/ ApplyAnswers
    \/ ApplySynthesizer
    \/ ApplyEvaluator
    \/ ApplyPageSummarizer

SiteSpec == SiteInit /\ [][SiteNext]_vars

\* ------------------------------------------------------- evaluator alone
\* rubric objects the JSON-completion service can return: the scores are
\* whatever numbers it writes (in tenths: 10 is 1.0)
WideRubrics ==
    {[coverage |-> 5, grounding |-> 5, coherence |-> 5,
      overall |-> 7, replan_needed |-> FALSE, critique |-> ""],
     [coverage |-> 12, grounding |-> 5, coherence |-> 5,
      overall |-> 17, replan_needed |-> FALSE, critique |-> ""],
     [coverage |-> 5, grounding |-> 0 - 2, coherence |-> 5,
      overall |-> 0 - 3, replan_needed |-> TRUE, critique |-> "weak grounding"]}

\* what one pass of the try block can meet, the repair text failing to
\* parse at any offset
WideEvalAttempts ==
    {[raw |-> "json", repair |-> "", data |-> d, fields |-> "ok"] : d \in WideRubrics}
    \cup {[raw |-> "json", repair |-> "", data |-> BlankJson, fields |-> "bad"]}
    \cup {[raw |-> r, repair |-> "", data |-> BlankJson, fields |-> "ok"] :
            r \in {"empty"} \cup ErrKinds}
    \cup {[raw |-> "notjson", repair |-> "json", data |-> d, fields |-> "ok"] : d \in WideRubrics}
    \cup {[raw |-> "notjson", repair |-> r, data |-> BlankJson, fields |-> "ok"] :
            r \in {"notjson", "notjson at 429"} \cup ErrKinds}

\* the service scripted for one pass more than the loop can make
EvalInputs ==
    {[state |-> SiteState(q), attempts |-> s] :
        q \in Questions, s \in [1..(MaxAttempts + 1) -> WideEvalAttempts]}

EvalInit ==
    /\ NoRun
    /\ NoCache
    /\ fn = "evaluator"
    /\ args \in EvalInputs
    /\ ret = None

\* the completion calls the first n passes issued
RECURSIVE eval_calls(_, _)
eval_calls(attempts, n) ==
    IF n = 0 THEN 0 ELSE eval_calls(attempts, n - 1) + eval_attempt_calls(attempts[n])

\* evaluator: the state returned, the passes of the loop and the completion
\* calls issued
ApplyEvaluatorWide ==
    LET loop == RetryLoop([i \in 1..Len(args.attempts) |-> eval_attempt(args.attempts[i])], 0)
    IN  Apply("evaluator",
              [out |-> evaluator(args.state, args.attempts),
               attempts |-> loop.attempts,
               calls |-> eval_calls(args.attempts, loop.attempts)])

EvalNext == ApplyEvaluatorWide

EvalSpec == EvalInit /\ [][EvalNext]_vars

\* ================================================== utils/http_utils.py
\* What one httpx.get does: a response with its status code, or the
\* exception it raises.
Response(status) == [kind |-> "response", status |-> status]
Raises(exc) == [kind |-> "raises", status |-> 0, exc |-> exc]

RECURSIVE Pow2(_)
Pow2(n) == IF n = 0 THEN 1 ELSE 2 * Pow2(n - 1)

Min(a, b) == IF a <= b THEN a ELSE b

\* min(backoff * (2 ** attempt), MAX_BACKOFF)
wait_time(attempt) == Min(RETRY_BACKOFF * Pow2(attempt), MAX_BACKOFF)

\* mutant: a client error is backed off and retried like a server error
RECURSIVE fetch_loop_retry_4xx(_, _, _, _)
fetch_loop_retry_4xx(gets, attempt, max_retries, sleeps) ==
    IF attempt >= max_retries
    THEN [response |-> None, gets |-> attempt, sleeps |-> sleeps]
    ELSE LET c == gets[attempt + 1]
             again == fetch_loop_retry_4xx(gets, attempt + 1, max_retries,
                                           Append(sleeps, wait_time(attempt)))
         IN  IF c.kind = "response"
             THEN IF c.status < 400
                  THEN [response |-> Some(c), gets |-> attempt + 1, sleeps |-> sleeps]
                  ELSE again
             ELSE IF c.exc \in {"ConnectError", "ConnectTimeout"} THEN again
             ELSE [response |-> None, gets |-> attempt + 1, sleeps |-> sleeps]

\* fetch_url, `for attempt in range(max_retries)`: the response returned,
\* the GETs made and the seconds slept after each failed attempt
RECURSIVE fetch_loop(_, _, _, _)
fetch_loop(gets, attempt, max_retries, sleeps) ==
    IF attempt >= max_retries
    THEN [response |-> None, gets |-> attempt, sleeps |-> sleeps]
    ELSE LET c == gets[attempt + 1]
             again == fetch_loop(gets, attempt + 1, max_retries,
                                 Append(sleeps, wait_time(attempt)))
         IN  IF c.kind = "response"
             THEN IF c.status < 400
                  THEN [response |-> Some(c), gets |-> attempt + 1, sleeps |-> sleeps]
                  ELSE IF c.status = 429 THEN again
                  ELSE IF c.status >= 500 THEN again
                  ELSE [response |-> None, gets |-> attempt + 1, sleeps |-> sleeps]
             ELSE IF c.exc \in {"ConnectError", "ConnectTimeout"} THEN again
             ELSE [response |-> None, gets |-> attempt + 1, sleeps |-> sleeps]

\* fetch_url(url, max_retries=...): `allowed` is is_allowed_url(url), gets
\* what each successive httpx.get does
fetch_url(allowed, gets, max_retries) ==
    IF ~allowed THEN [response |-> None, gets |-> 0, sleeps |-> <<>>]
    ELSE fetch_loop(gets, 0, max_retries, <<>>)

\* ----------------------------------------------------- fetch_url alone
GetOutcomes ==
    {Response(s) : s \in {200, 404, 429, 500}}
    \cup {Raises(e) : e \in {"ConnectError", "ReadTimeout"}}

RetriedOutcomes == {Response(429), Response(503), Raises("ConnectTimeout")}

\* calls with up to MaxRetriesCap attempts (MAX_RETRIES by default), the
\* server scripted for one GET more than allowed, and long calls whose
\* every GET fails in a way that is retried
FetchInputs(n) ==
    IF n <= MaxRetriesCap
    THEN {[allowed |-> a, max_retries |-> n, gets |-> g] :
            a \in BOOLEAN, g \in [1..(n + 1) -> GetOutcomes]}
    ELSE {[allowed |-> TRUE, max_retries |-> n, gets |-> g] :
            g \in [1..(n + 1) -> RetriedOutcomes]}

FetchInit ==
    /\ NoRun
    /\ NoCache
    /\ fn = "fetch_url"
    /\ \E n \in (1..MaxRetriesCap) \cup {LongRetries} : args \in FetchInputs(n)
    /\ ret = None

ApplyFetchUrl == Apply("fetch_url", fetch_url(args.allowed, args.gets, args.max_retries))

FetchNext == ApplyFetchUrl

FetchSpec == FetchInit /\ [][FetchNext]_vars

\* ================================================== utils/cache_utils.py
\* An expiration timestamp: a time, or float('inf').
Never == [inf |-> TRUE, at |-> 0]
At(t) == [inf |-> FALSE, at |-> t]

\* exp <= t
Due(exp, t) == ~exp.inf /\ exp.at <= t

\* e1 < e2
Sooner(e1, e2) == ~e1.inf /\ (e2.inf \/ e1.at < e2.at)

\* MemoryCache.__init__; _cache is a dict, kept here in insertion order
MemoryCache(max_size, ttl) ==
    [max_size |-> max_size,
     default_ttl |-> ttl,
     cache |-> <<>>,
     statistics |-> [hits |-> 0, misses |-> 0, evictions |-> 0, insertions |-> 0, size |-> 0]]

\* the keys of _cache
CacheKeys(c) == {c.cache[i].key : i \in 1..Len(c.cache)}

\* self._cache[key]
Entry(c, key) == c.cache[CHOOSE i \in 1..Len(c.cache) : c.cache[i].key = key]

\* del self._cache[k] for every k of keys
Without(entries, keys) == SelectSeq(entries, LAMBDA e : e.key \notin keys)

\* _cleanup_expired: drops every entry with exp <= now and counts them as
\* evictions
_cleanup_expired(c, t) ==
    LET expired_keys == {c.cache[i].key : i \in {j \in 1..Len(c.cache) :
                                                    Due(c.cache[j].expiration, t)}}
        kept == Without(c.cache, expired_keys)
    IN  [c EXCEPT !.cache = kept,
                  !.statistics.evictions = @ + Cardinality(expired_keys),
                  !.statistics.size = Len(kept)]

\* mutant: the entry with the latest expiration is evicted
_evict_latest(c) ==
    IF c.cache = <<>> THEN c
    ELSE LET latest == CHOOSE i \in 1..Len(c.cache) :
                          /\ \A j \in 1..Len(c.cache) :
                                ~Sooner(c.cache[i].expiration, c.cache[j].expiration)
                          /\ \A j \in 1..(i - 1) :
                                Sooner(c.cache[j].expiration, c.cache[i].expiration)
             kept == Without(c.cache, {c.cache[latest].key})
         IN  [c EXCEPT !.cache = kept,
                       !.statistics.evictions = @ + 1,
                       !.statistics.size = Len(kept)]

\* _evict_oldest: min over the keys by expiration (the first of the minima
\* in dict order), deleted and counted as one eviction
_evict_oldest(c) ==
    IF c.cache = <<>> THEN c
    ELSE LET oldest == CHOOSE i \in 1..Len(c.cache) :
                          /\ \A j \in 1..Len(c.cache) :
                                ~Sooner(c.cache[j].expiration, c.cache[i].expiration)
                          /\ \A j \in 1..(i - 1) :
                                Sooner(c.cache[i].expiration, c.cache[j].expiration)
             kept == Without(c.cache, {c.cache[oldest].key})
         IN  [c EXCEPT !.cache = kept,
                       !.statistics.evictions = @ + 1,
                       !.statistics.size = Len(kept)]

\* put, up to the capacity check: expired entries purged, then one entry
\* evicted when the cache is full and the key is new
put_make_room(c, key, t) ==
    LET c1 == _cleanup_expired(c, t)
    IN  IF Len(c1.cache) >= c1.max_size /\ key \notin CacheKeys(c1)
        THEN _evict_oldest(c1) ELSE c1

\* mutant: ttl 0 is added to the clock like any other ttl
put_expiration_finite(c, ttl, t) ==
    At(t + (IF IsSome(ttl) THEN Get(ttl) ELSE c.default_ttl))

\* put: time.time() + (ttl if ttl is not None else self.default_ttl)
\* if (ttl != 0) else float('inf')
put_expiration(c, ttl, t) ==
    IF ttl # Some(0)
    THEN At(t + (IF IsSome(ttl) THEN Get(ttl) ELSE c.default_ttl))
    ELSE Never

\* self._cache[key] = (value, expiration): in place for a key already there
put_store(c, key, value, expiration) ==
    LET e == [key |-> key, value |-> value, expiration |-> expiration]
        entries == IF key \in CacheKeys(c)
                   THEN [i \in 1..Len(c.cache) |->
                            IF c.cache[i].key = key THEN e ELSE c.cache[i]]
                   ELSE Append(c.cache, e)
    IN  [c EXCEPT !.cache = entries,
                  !.statistics.insertions = @ + 1,
                  !.statistics.size = Len(entries)]

\* mutant: the capacity check is skipped
put_noevict(c, key, value, ttl, t) ==
    put_store(_cleanup_expired(c, t), key, value, put_expiration(c, ttl, t))

\* MemoryCache.put at time t
put(c, key, value, ttl, t) ==
    put_store(put_make_room(c, key, t), key, value, put_expiration(c, ttl, t))

\* mutant: an entry is still served at its expiration instant
get_inclusive(c, key, t) ==
    IF key \in CacheKeys(c) /\ (Entry(c, key).expiration.inf \/ Entry(c, key).expiration.at >= t)
    THEN [mc |-> [c EXCEPT !.statistics.hits = @ + 1], ret |-> Some(Entry(c, key).value)]
    ELSE IF key \in CacheKeys(c)
    THEN [mc |-> [c EXCEPT !.cache = Without(c.cache, {key}),
                           !.statistics.size = Len(Without(c.cache, {key})),
                           !.statistics.misses = @ + 1],
          ret |-> None]
    ELSE [mc |-> [c EXCEPT !.statistics.misses = @ + 1], ret |-> None]

\* mutant: the lazy removal of an expired entry leaves the size counter alone
get_stale_size(c, key, t) ==
    IF key \in CacheKeys(c) /\ ~Due(Entry(c, key).expiration, t)
    THEN [mc |-> [c EXCEPT !.statistics.hits = @ + 1], ret |-> Some(Entry(c, key).value)]
    ELSE IF key \in CacheKeys(c)
    THEN [mc |-> [c EXCEPT !.cache = Without(c.cache, {key}),
                           !.statistics.misses = @ + 1],
          ret |-> None]
    ELSE [mc |-> [c EXCEPT !.statistics.misses = @ + 1], ret |-> None]

\* MemoryCache.get at time t: the cache afterwards and the value returned
get(c, key, t) ==
    IF key \in CacheKeys(c) /\ ~Due(Entry(c, key).expiration, t)
    THEN [mc |-> [c EXCEPT !.statistics.hits = @ + 1], ret |-> Some(Entry(c, key).value)]
    ELSE IF key \in CacheKeys(c)
    THEN [mc |-> [c EXCEPT !.cache = Without(c.cache, {key}),
                           !.statistics.size = Len(Without(c.cache, {key})),
                           !.statistics.misses = @ + 1],
          ret |-> None]
    ELSE [mc |-> [c EXCEPT !.statistics.misses = @ + 1], ret |-> None]

\* MemoryCache.contains at time t
contains(c, key, t) == key \in CacheKeys(c) /\ ~Due(Entry(c, key).expiration, t)

\* MemoryCache.remove
remove(c, key) ==
    IF key \in CacheKeys(c)
    THEN [mc |-> [c EXCEPT !.cache = Without(c.cache, {key}),
                           !.statistics.size = Len(Without(c.cache, {key}))],
          ret |-> TRUE]
    ELSE [mc |-> c, ret |-> FALSE]

\* MemoryCache.clear
clear(c) == [c EXCEPT !.cache = <<>>, !.statistics.size = 0]

\* MemoryCache.get_stats: a copy of the counters
get_stats(c) == c.statistics

\* ------------------------------------------------ the cache and its callers
Keys == {"k1", "k2", "k3"}
Values == {"v1"}
\* the ttl argument of put: omitted, 0 (no expiration) or seconds
Ttls == {None, Some(0), Some(1)}
\* the ttl argument of the constructor
DefaultTtls == {0, 1}

\* the keys a put of `key` at time t evicts for capacity
Displaced(c, key, t) ==
    CacheKeys(_cleanup_expired(c, t)) \ CacheKeys(put_make_room(c, key, t))

\* the n-th operation on the cache, with its key and return value
Op(name, key, result) == [op |-> name, key |-> key, ret |-> result, n |-> last.n + 1]

\* the caller makes one more call
Calling == last.n < MaxOps

CachePut ==
    /\ Calling
    /\ \E k \in Keys, v \in Values, ttl \in Ttls :
          /\ mc' = put(mc, k, v, ttl, now)
          /\ last' = Op("put", k, None)
          /\ written' = [written EXCEPT ![k] =
                            Some([value |-> v, ttl |-> ttl,
                                  expiration |-> put_expiration(mc, ttl, now)])]
          /\ evicted' = (evicted \cup Displaced(mc, k, now)) \ {k}
    /\ UNCHANGED <<now, lock, threads, runVars, callVars, routeVars>>

CacheGet ==
    /\ Calling
    /\ \E k \in Keys :
          /\ mc' = get(mc, k, now).mc
          /\ last' = Op("get", k, get(mc, k, now).ret)
    /\ UNCHANGED <<now, written, evicted, lock, threads, runVars, callVars, routeVars>>

CacheContains ==
    /\ Calling
    /\ \E k \in Keys : last' = Op("contains", k, contains(mc, k, now))
    /\ UNCHANGED <<mc, now, written, evicted, lock, threads, runVars, callVars, routeVars>>

CacheRemove ==
    /\ Calling
    /\ \E k \in Keys :
          /\ mc' = remove(mc, k).mc
          /\ last' = Op("remove", k, remove(mc, k).ret)
          /\ written' = [written EXCEPT ![k] = None]
          /\ evicted' = evicted \ {k}
    /\ UNCHANGED <<now, lock, threads, runVars, callVars, routeVars>>

CacheClear ==
    /\ Calling
    /\ mc' = clear(mc)
    /\ last' = Op("clear", "", None)
    /\ written' = [k \in Keys |-> None]
    /\ evicted' = {}
    /\ UNCHANGED <<now, lock, threads, runVars, callVars, routeVars>>

CacheGetStats ==
    /\ Calling
    /\ last' = Op("get_stats", "", get_stats(mc))
    /\ UNCHANGED <<mc, now, written, evicted, lock, threads, runVars, callVars, routeVars>>

\* a second passes
Tick ==
    /\ now < MaxTime
    /\ now' = now + 1
    /\ last' = [op |-> "tick", key |-> "", ret |-> None, n |-> last.n]
    /\ UNCHANGED <<mc, written, evicted, lock, threads, runVars, callVars, routeVars>>

\* a process that has built its cache: MemoryCache(max_size, ttl)
CacheInit ==
    /\ NoRun
    /\ NoCall
    /\ \E m \in 0..MaxSizeCap, d \in DefaultTtls : mc = MemoryCache(m, d)
    /\ now = 0
    /\ last = [op |-> "init", key |-> "", ret |-> None, n |-> 0]
    /\ written = [k \in Keys |-> None]
    /\ evicted = {}
    /\ NoThreads
    /\ NoRoute

CacheNext ==
    \/ CachePut
    \/ CacheGet
    \/ CacheContains
    \/ CacheRemove
    \/ CacheClear
    \/ CacheGetStats
    \/ Tick

CacheSpec == CacheInit /\ [][CacheNext]_vars

\* ------------------------------------------ concurrent callers of the cache
\* Every public method runs inside `with self._lock`; a method is modelled
\* statement by statement so that another thread could run in between.
Threads == {"t1", "t2"}
ConcKeys == {"k1", "k2"}
ConcTtls == {Some(0), Some(1)}

\* mutant: the lock is entered without waiting for its owner to leave
RLock_acquire_nowait(owner) == TRUE

\* threading.RLock.acquire by a thread that does not hold the lock: it
\* blocks while another thread holds it
RLock_acquire(owner) == owner = ""

\* a thread outside the cache that has made n calls, the last returning r
Outside(n, r) ==
    [pc |-> "idle", op |-> "", key |-> "", value |-> "", ttl |-> None,
     c0 |-> None, tread |-> 0, ret |-> r, calls |-> n]

\* the calls a thread can make
ConcCalls ==
    {[op |-> "put", key |-> k, value |-> "v1", ttl |-> ttl] : k \in ConcKeys, ttl \in ConcTtls}
    \cup {[op |-> o, key |-> k, value |-> "", ttl |-> None] :
            o \in {"get", "contains", "remove"}, k \in ConcKeys}

\* the calls the threads of S have made so far
RECURSIVE CallsMade(_)
CallsMade(S) ==
    IF S = {} THEN 0
    ELSE LET thr == CHOOSE x \in S : TRUE
         IN  threads[thr].calls + CallsMade(S \ {thr})

\* the first statement of a method after `with self._lock:`
FirstStatement(op) ==
    CASE op = "put" -> "put_cleanup"
      [] op = "get" -> "get_check"
      [] op = "contains" -> "contains"
      [] op = "remove" -> "remove_check"

\* a thread calls a method and enters its `with self._lock:` block; c0 is
\* the cache it finds
Enter(thr) ==
    /\ threads[thr].pc = "idle"
    /\ CallsMade(Threads) < MaxOps
    /\ RLock_acquire(lock)
    /\ lock' = thr
    /\ \E call \in ConcCalls :
          threads' = [threads EXCEPT ![thr] =
                        [pc |-> FirstStatement(call.op), op |-> call.op, key |-> call.key,
                         value |-> call.value, ttl |-> call.ttl,
                         c0 |-> mc, tread |-> 0, ret |-> None, calls |-> @.calls + 1]]
    /\ UNCHANGED <<mc, now, last, written, evicted, runVars, callVars, routeVars>>

\* the thread moves to statement pc, having read the clock at tread
Goto(thr, pc, tread) ==
    /\ threads' = [threads EXCEPT ![thr].pc = pc, ![thr].tread = tread]
    /\ UNCHANGED lock

\* the method returns result and the `with` block releases the lock
Leave(thr, result) ==
    /\ threads' = [threads EXCEPT ![thr] = Outside(@.calls, result)]
    /\ lock' = ""

\* put: self._cleanup_expired()
PutCleanup(thr) ==
    /\ threads[thr].pc = "put_cleanup"
    /\ mc' = _cleanup_expired(mc, now)
    /\ Goto(thr, "put_evict", now)
    /\ UNCHANGED <<now, last, written, evicted, runVars, callVars, routeVars>>

\* put: if len(self._cache) >= self.max_size and key not in self._cache
PutEvict(thr) ==
    /\ threads[thr].pc = "put_evict"
    /\ mc' = IF Len(mc.cache) >= mc.max_size /\ threads[thr].key \notin CacheKeys(mc)
             THEN _evict_oldest(mc) ELSE mc
    /\ Goto(thr, "put_store", threads[thr].tread)
    /\ UNCHANGED <<now, last, written, evicted, runVars, callVars, routeVars>>

\* put: the expiration, the store and the counters
PutStore(thr) ==
    /\ threads[thr].pc = "put_store"
    /\ mc' = put_store(mc, threads[thr].key, threads[thr].value,
                       put_expiration(mc, threads[thr].ttl, now))
    /\ Leave(thr, None)
    /\ UNCHANGED <<now, last, written, evicted, runVars, callVars, routeVars>>

\* get: if key in self._cache ... if expiration > time.time(): a hit returns
GetCheck(thr) ==
    /\ threads[thr].pc = "get_check"
    /\ LET key == threads[thr].key
       IN  IF key \in CacheKeys(mc) /\ ~Due(Entry(mc, key).expiration, now)
           THEN /\ mc' = [mc EXCEPT !.statistics.hits = @ + 1]
                /\ Leave(thr, Some(Entry(mc, key).value))
           ELSE /\ mc' = mc
                /\ Goto(thr, IF key \in CacheKeys(mc) THEN "get_expire" ELSE "get_miss", now)
    /\ UNCHANGED <<now, last, written, evicted, runVars, callVars, routeVars>>

\* get: del self._cache[key] and the size counter
GetExpire(thr) ==
    /\ threads[thr].pc = "get_expire"
    /\ mc' = [mc EXCEPT !.cache = Without(mc.cache, {threads[thr].key}),
                        !.statistics.size = Len(Without(mc.cache, {threads[thr].key}))]
    /\ Goto(thr, "get_miss", threads[thr].tread)
    /\ UNCHANGED <<now, last, written, evicted, runVars, callVars, routeVars>>

\* get: the miss counter, return None
GetMiss(thr) ==
    /\ threads[thr].pc = "get_miss"
    /\ mc' = [mc EXCEPT !.statistics.misses = @ + 1]
    /\ Leave(thr, None)
    /\ UNCHANGED <<now, last, written, evicted, runVars, callVars, routeVars>>

\* contains
Contains(thr) ==
    /\ threads[thr].pc = "contains"
    /\ Leave(thr, contains(mc, threads[thr].key, now))
    /\ UNCHANGED <<mc, now, last, written, evicted, runVars, callVars, routeVars>>

\* remove: if key in self._cache
RemoveCheck(thr) ==
    /\ threads[thr].pc = "remove_check"
    /\ IF threads[thr].key \in CacheKeys(mc)
       THEN Goto(thr, "remove_del", 0)
       ELSE Leave(thr, FALSE)
    /\ UNCHANGED <<mc, now, last, written, evicted, runVars, callVars, routeVars>>

\* remove: del self._cache[key], the size counter, return True
RemoveDel(thr) ==
    /\ threads[thr].pc = "remove_del"
    /\ mc' = [mc EXCEPT !.cache = Without(mc.cache, {threads[thr].key}),
                        !.statistics.size = Len(Without(mc.cache, {threads[thr].key}))]
    /\ Leave(thr, TRUE)
    /\ UNCHANGED <<now, last, written, evicted, runVars, callVars, routeVars>>

\* a second passes, wherever the threads are
ConcTick ==
    /\ now < MaxTime
    /\ now' = now + 1
    /\ UNCHANGED <<mc, last, written, evicted, lock, threads, runVars, callVars, routeVars>>

ConcInit ==
    /\ NoRun
    /\ NoCall
    /\ \E m \in 1..MaxSizeCap : mc = MemoryCache(m, 1)
    /\ now = 0
    /\ last = None
    /\ written = <<>>
    /\ evicted = {}
    /\ lock = ""
    /\ threads = [thr \in Threads |-> Outside(0, None)]
    /\ NoRoute

ConcNext ==
    \/ \E thr \in Threads : Enter(thr)
    \/ \E thr \in Threads : PutCleanup(thr)
    \/ \E thr \in Threads : PutEvict(thr)
    \/ \E thr \in Threads : PutStore(thr)
    \/ \E thr \in Threads : GetCheck(thr)
    \/ \E thr \in Threads : GetExpire(thr)
    \/ \E thr \in Threads : GetMiss(thr)
    \/ \E thr \in Threads : Contains(thr)
    \/ \E thr \in Threads : RemoveCheck(thr)
    \/ \E thr \in Threads : RemoveDel(thr)
    \/ ConcTick

ConcSpec == ConcInit /\ [][ConcNext]_vars

\* ================================================== routes/rag_routes.py
\* The /searchrag handler.  It is an `async def` without an await and its
\* upstream call is the blocking requests.post, so the event loop runs one
\* handler from its first statement to its last before it starts the next:
\* concurrent requests are handled one after another, in any order, and share
\* the module's JWT_TOKEN and rag_answer_cache.

\* rag_answer_cache = MemoryCache(ttl=3600), max_size at its default
rag_answer_cache == MemoryCache(1000, 3600)

\* queries: one of them is another one padded with blanks
RagQueries == {"q1", " q1 ", "q2"}
RagTokens == {"jwt-0", "jwt-1"}

\* what one requests.post can do: answer with a status, or raise
PostOutcomes == {"200", "200 not JSON", "401", "500", "ConnectionError", "Timeout"}
IsResponse(o) == o \in {"200", "200 not JSON", "401", "500"}
status_code(o) ==
    CASE o \in {"200", "200 not JSON"} -> 200
      [] o = "401" -> 401
      [] o = "500" -> 500

\* fetch_jwt_token returns a token, or None ("") on any failure; it never raises
RefreshOutcomes == RagTokens \cup {""}

\* what the upstream and the token endpoint will do for one request, one call
\* and one refresh further than the handler can consume; a call or refresh
\* that can only follow a 401 and a token is scripted only after them
RagScripts ==
    {s \in [calls : [1..3 -> PostOutcomes], refreshes : [1..2 -> RefreshOutcomes]] :
        /\ s.calls[1] # "401" => s.refreshes[1] = ""
        /\ s.refreshes[1] = "" => s.calls[2] = "200"
        /\ s.calls[2] # "401" => s.refreshes[2] = ""
        /\ s.refreshes[2] = "" => s.calls[3] = "200"}

\* the payload the upstream answers the query with
Payload(query) == "answer to '" \o query \o "'"

\* what the handler did for one request; body is the payload returned
Handled(token, c, query, responses, refreshed, status, body) ==
    [JWT_TOKEN |-> token, mc |-> c, query |-> query,
     responses |-> responses, refreshed |-> refreshed, status |-> status,
     body |-> body]

\* mutant: the payload of an error response is cached like an answer
rag_finish_cache_errors(token, c, t, query, responses, refreshed) ==
    LET o == responses[Len(responses)]
        cached == put(c, Strip(query), Payload(query), None, t)
    IN
    IF o = "ConnectionError"
    THEN Handled(token, c, query, responses, refreshed, 503, None)
    ELSE IF o = "Timeout"
    THEN Handled(token, c, query, responses, refreshed, 504, None)
    ELSE IF status_code(o) >= 400
    THEN Handled(token, cached, query, responses, refreshed, status_code(o), None)
    ELSE IF o = "200 not JSON"
    THEN Handled(token, c, query, responses, refreshed, 500, None)
    ELSE Handled(token, cached, query, responses, refreshed, 200, Some(Payload(query)))

\* lines 89-142: raise_for_status, response.json(), the cache put under
\* cache_key, and the except clauses of the outer try
rag_finish(token, c, t, query, responses, refreshed) ==
    LET o == responses[Len(responses)] IN
    IF o = "ConnectionError"
    THEN Handled(token, c, query, responses, refreshed, 503, None)
    ELSE IF o = "Timeout"
    THEN Handled(token, c, query, responses, refreshed, 504, None)
    ELSE IF status_code(o) >= 400
    THEN Handled(token, c, query, responses, refreshed, status_code(o), None)
    ELSE IF o = "200 not JSON"
    THEN Handled(token, c, query, responses, refreshed, 500, None)
    ELSE Handled(token, put(c, Strip(query), Payload(query), None, t), query,
                 responses, refreshed, 200, Some(Payload(query)))

\* mutant: a 401 from the retry is refreshed and retried once more
search_mcp_tool_retry_again(token, c, t, query, script) ==
    LET g == get(c, Strip(query), t)
        r1 == script.calls[1]
        r2 == script.calls[2]
        r3 == script.calls[3]
        f1 == script.refreshes[1]
        f2 == script.refreshes[2]
    IN  IF g.ret # None
        THEN Handled(token, g.mc, query, <<>>, <<>>, 200, g.ret)
        ELSE IF token = "" \/ token = "PLACEHOLDER_INVALID_TOKEN"
        THEN Handled(token, g.mc, query, <<>>, <<>>, 401, None)
        ELSE IF r1 # "401"
        THEN rag_finish(token, g.mc, t, query, <<r1>>, <<>>)
        ELSE IF f1 = ""
        THEN Handled(f1, g.mc, query, <<r1>>, <<f1>>, 500, None)
        ELSE IF ~IsResponse(r2)
        THEN Handled(f1, g.mc, query, <<r1, r2>>, <<f1>>, 500, None)
        ELSE IF r2 # "401"
        THEN rag_finish(f1, g.mc, t, query, <<r1, r2>>, <<f1>>)
        ELSE IF f2 = ""
        THEN Handled(f2, g.mc, query, <<r1, r2>>, <<f1, f2>>, 500, None)
        ELSE IF ~IsResponse(r3)
        THEN Handled(f2, g.mc, query, <<r1, r2, r3>>, <<f1, f2>>, 500, None)
        ELSE rag_finish(f2, g.mc, t, query, <<r1, r2, r3>>, <<f1, f2>>)

\* search_mcp_tool, with fetch_jwt_token configured as Rag_server.py does.
\* cache_key = search_data.query.strip(). A failed refresh raises
\* HTTPException(401) at line 81, which the inner `except Exception`
\* re-raises at line 86 inside the outer try, where the last clause (line
\* 140) turns it into a 500; an exception of the retry call takes the same
\* way.
search_mcp_tool(token, c, t, query, script) ==
    LET g == get(c, Strip(query), t)
        r1 == script.calls[1]
        r2 == script.calls[2]
        f1 == script.refreshes[1]
    IN  IF g.ret # None
        THEN Handled(token, g.mc, query, <<>>, <<>>, 200, g.ret)
        ELSE IF token = "" \/ token = "PLACEHOLDER_INVALID_TOKEN"
        THEN Handled(token, g.mc, query, <<>>, <<>>, 401, None)
        ELSE IF r1 # "401"
        THEN rag_finish(token, g.mc, t, query, <<r1>>, <<>>)
        ELSE IF f1 = ""
        THEN Handled(f1, g.mc, query, <<r1>>, <<f1>>, 500, None)
        ELSE IF ~IsResponse(r2)
        THEN Handled(f1, g.mc, query, <<r1, r2>>, <<f1>>, 500, None)
        ELSE rag_finish(f1, g.mc, t, query, <<r1, r2>>, <<f1>>)

\* ------------------------------------------------- the route and its callers
\* the event loop picks one of the waiting requests and runs its handler
SearchRag ==
    /\ request.n < MaxOps
    /\ \E query \in RagQueries, script \in RagScripts :
         LET h == search_mcp_tool(JWT_TOKEN, mc, now, query, script) IN
         /\ JWT_TOKEN' = h.JWT_TOKEN
         /\ mc' = h.mc
         /\ request' = [n |-> request.n + 1, query |-> query,
                         token |-> JWT_TOKEN, responses |-> h.responses,
                         refreshed |-> h.refreshed, status |-> h.status,
                         body |-> h.body]
    /\ UNCHANGED <<now, last, written, evicted, lock, threads, exec, runVars, callVars>>

\* Rag_server.py: JWT_TOKEN = fetch_jwt_token() at startup
RagInit ==
    /\ NoRun
    /\ NoCall
    /\ mc = rag_answer_cache
    /\ now = 0
    /\ last = None
    /\ written = <<>>
    /\ evicted = {}
    /\ NoThreads
    /\ JWT_TOKEN \in RefreshOutcomes
    /\ request = [n |-> 0]
    /\ exec = None

\* an hour passes: the entries cached before are due
RagTick ==
    /\ now < MaxTime * 3600
    /\ now' = now + 3600
    /\ UNCHANGED <<mc, last, written, evicted, lock, threads, runVars, callVars, routeVars>>

RagNext == SearchRag \/ RagTick

RagSpec == RagInit /\ [][RagNext]_vars

\* ============================== the executor's fan-out, thread by thread
\* The loop `for subq in state.subqueries` of executor with its worker
\* threads as processes: the main thread searches, starts one thread per
\* link, joins them in the order of their start, drains the Queue into
\* aggregated and goes to the next subquestion; a worker puts its records on
\* the Queue it was given and exits.

\* what the search of subquestion i returns: nothing (the request failed or
\* found nothing), or 1 or SUBQ_SEARCH_COUNT + 1 links of its own
FanResponses(i) ==
    {CseError}
    \cup {CseOk([j \in 1..k |-> FreshLink(i, j)]) : k \in {1, SUBQ_SEARCH_COUNT + 1}}

\* what a worker meets: the page is fetched and summarized, or fetch_url
\* returns None
FanWorkerOutcomes ==
    {[fetch |-> f, calls |-> <<Call("ok", "page summary")>>] : f \in {"page", "none"}}

\* threading.Thread(target=expand_and_summarize_web, args=(link, subq, q)):
\* the thread of subquestion i, with the records it will put
Thread(i, link, w) ==
    [subq |-> i, pc |-> "running", puts |-> expand_and_summarize_web(link, w.fetch, w.calls)]

\* mutant: the main thread does not wait for the worker
Thread_join_nowait(t) == TRUE

\* t.join() returns once the thread has exited
Thread_join(t) == t.pc = "exited"

\* the threads list of the current subquestion, as indices into exec.workers
Current(e) == {w \in 1..Len(e.workers) : e.workers[w].subq = e.i}
Alive(e) == {w \in 1..Len(e.workers) : e.workers[w].pc = "running"}

\* links = search_with_google_cse(subq, SUBQ_SEARCH_COUNT); links = [...][:SUBQ_SEARCH_COUNT];
\* q = Queue(); threads = []
ExecSearch ==
    /\ exec.pc = "search"
    /\ exec.i <= Len(exec.plan)
    /\ \E resp \in FanResponses(exec.i) :
         LET ls == SubqLinks([links |-> search_with_google_cse(resp)]) IN
         /\ Len(exec.workers) + Len(ls) <= MaxWorkers
         /\ exec' = [exec EXCEPT !.pc = "start", !.links = ls, !.q = <<>>]
    /\ UNCHANGED <<JWT_TOKEN, request, runVars, callVars, cacheVars>>

\* t = threading.Thread(...); t.start(); threads.append(t)
ExecStart ==
    /\ exec.pc = "start"
    /\ Cardinality(Current(exec)) < Len(exec.links)
    /\ \E w \in FanWorkerOutcomes :
         exec' = [exec EXCEPT !.workers =
                     Append(@, Thread(exec.i, exec.links[Cardinality(Current(exec)) + 1], w))]
    /\ UNCHANGED <<JWT_TOKEN, request, runVars, callVars, cacheVars>>

\* t.start() raises: the except clause appends the placeholder and the
\* threads started so far are joined
ExecStartFails ==
    /\ exec.pc = "start"
    /\ Cardinality(Current(exec)) < Len(exec.links)
    /\ exec' = [exec EXCEPT
                  !.pc = "join", !.j = 1,
                  !.aggregated = Append(@, [title |-> exec.plan[exec.i], link |-> "",
                                            summary |-> "Websearch error: start"]),
                  !.origin = Append(@, exec.i)]
    /\ UNCHANGED <<JWT_TOKEN, request, runVars, callVars, cacheVars>>

\* the for loop over links is exhausted
ExecStarted ==
    /\ exec.pc = "start"
    /\ Cardinality(Current(exec)) = Len(exec.links)
    /\ exec' = [exec EXCEPT !.pc = "join", !.j = 1]
    /\ UNCHANGED <<JWT_TOKEN, request, runVars, callVars, cacheVars>>

\* for t in threads: t.join()
ExecJoin ==
    /\ exec.pc = "join"
    /\ LET cur == Current(exec)
           first == Len(exec.workers) - Cardinality(cur)
       IN  IF exec.j > Cardinality(cur)
           THEN exec' = [exec EXCEPT !.pc = "drain"]
           ELSE /\ Thread_join(exec.workers[first + exec.j])
                /\ exec' = [exec EXCEPT !.j = @ + 1]
    /\ UNCHANGED <<JWT_TOKEN, request, runVars, callVars, cacheVars>>

\* while not q.empty(): aggregated.append(q.get())
ExecDrain ==
    /\ exec.pc = "drain"
    /\ exec.q # <<>>
    /\ exec' = [exec EXCEPT !.q = Tail(@),
                            !.aggregated = Append(@, Head(exec.q)),
                            !.origin = Append(@, exec.i)]
    /\ UNCHANGED <<JWT_TOKEN, request, runVars, callVars, cacheVars>>

\* q.empty(): the next pass of the loop over the subquestions
ExecNextSubq ==
    /\ exec.pc = "drain"
    /\ exec.q = <<>>
    /\ exec' = [exec EXCEPT !.pc = "search", !.i = @ + 1, !.links = <<>>]
    /\ UNCHANGED <<JWT_TOKEN, request, runVars, callVars, cacheVars>>

\* the loop is over: state.web_results = dedupe_by_link(aggregated), the
\* numbering, return state
ExecReturn ==
    /\ exec.pc = "search"
    /\ exec.i > Len(exec.plan)
    /\ exec' = [exec EXCEPT !.pc = "returned",
                            !.web_results = NumberSources(dedupe_by_link(exec.aggregated))]
    /\ UNCHANGED <<JWT_TOKEN, request, runVars, callVars, cacheVars>>

\* a worker's queue.put(link). The Queue is the one its subquestion's pass
\* created: a record put after the executor has left that pass reaches a
\* Queue nobody reads.
WorkerPut(w) ==
    /\ exec.workers[w].pc = "running"
    /\ exec.workers[w].puts # <<>>
    /\ exec' = [exec EXCEPT
                  !.workers[w].puts = Tail(@),
                  !.put = Append(@, [w |-> w, rec |-> Head(exec.workers[w].puts)]),
                  !.q = IF exec.workers[w].subq = exec.i /\ exec.pc # "returned"
                        THEN Append(@, Head(exec.workers[w].puts)) ELSE @]
    /\ UNCHANGED <<JWT_TOKEN, request, runVars, callVars, cacheVars>>

\* the worker returns from expand_and_summarize_web
WorkerExit(w) ==
    /\ exec.workers[w].pc = "running"
    /\ exec.workers[w].puts = <<>>
    /\ exec' = [exec EXCEPT !.workers[w].pc = "exited"]
    /\ UNCHANGED <<JWT_TOKEN, request, runVars, callVars, cacheVars>>

\* executor at the head of its loop, for a plan of up to MaxPlanLen
\* subquestions. origin (the subquestion each aggregated record came from)
\* and put (each put made, with its worker) are history.
FanInit ==
    /\ NoRun
    /\ NoCall
    /\ mc = None /\ now = 0 /\ last = None /\ written = <<>> /\ evicted = {}
    /\ NoThreads
    /\ JWT_TOKEN = "" /\ request = None
    /\ \E n \in 0..MaxPlanLen :
         exec = [pc |-> "search", plan |-> FanPlan(n), i |-> 1, j |-> 1,
                 links |-> <<>>, workers |-> <<>>, q |-> <<>>,
                 aggregated |-> <<>>, origin |-> <<>>, put |-> <<>>,
                 web_results |-> <<>>]

FanNext ==
    \/ ExecSearch
    \/ ExecStart
    \/ ExecStartFails
    \/ ExecStarted
    \/ ExecJoin
    \/ ExecDrain
    \/ ExecNextSubq
    \/ ExecReturn
    \/ \E w \in 1..MaxWorkers : w <= Len(exec.workers) /\ WorkerPut(w)
    \/ \E w \in 1..MaxWorkers : w <= Len(exec.workers) /\ WorkerExit(w)

FanSpec == FanInit /\ [][FanNext]_vars

\* ================================================================ claims
Last(s) == s[Len(s)]
EvalPasses == Cardinality({i \in 1..Len(trace) : trace[i] = "evaluator"})
Cycle == <<"planner", "executor", "answer_subqs", "synthesizer", "evaluator">>
JustRan(n) == trace # <<>> /\ Last(trace) = n
Overall(s) == Get(s.scores).overall
Responded == phase = "responded"

\* C1: for every MAX_LOOPS >= 1 and every mix of upstream outcomes the run
\* terminates: until the response is handed over a step is always possible,
\* every step adds one stage to a history of at most 1 + 5 * MAX_LOOPS
\* stages, Evaluate runs at most MAX_LOOPS times, and the response is built
\* from a non-null final state.
C1_Terminates ==
    /\ Responded \/ ENABLED Next
    /\ EvalPasses <= MAX_LOOPS
    /\ Len(trace) <= 1 + 5 * MAX_LOOPS
    /\ phase # "failed"
    /\ Responded => IsSome(final) /\ IsSome(response) /\ Get(final) = state

C1_Witness ==
    /\ Responded
    /\ MAX_LOOPS = 3
    /\ EvalPasses = 3
    /\ state.summary = "Error: 429"
    /\ state.final_answer = "final [1]"

\* C2: loop_count equals the number of Evaluate passes started so far, in
\* the state and in the snapshot the caller holds, never exceeds MAX_LOOPS,
\* and no step decreases it.
C2_LoopCount ==
    /\ [](/\ state.loop_count = EvalPasses
          /\ state.loop_count <= MAX_LOOPS
          /\ IsSome(final) => Get(final).loop_count = EvalPasses)
    /\ [][state'.loop_count >= state.loop_count]_vars

C2_Witness ==
    /\ JustRan("evaluator")
    /\ state.loop_count = 2
    /\ Get(state.scores).critique = "Evaluation failed: 429"

\* C3: a rubric at or above MIN_OVERALL ends the run at that iteration: the
\* conditional edge routes to END, the response is built from the snapshot
\* of that Evaluate, whose loop_count is the number of passes; after a
\* first pass above threshold loop_count is 1 and previous_subqueries empty.
C3_PassEnds ==
    (IsSome(state.scores) /\ Overall(state) >= MIN_OVERALL) =>
        /\ JustRan("evaluator")
        /\ Responded
        /\ node = "END"
        /\ Get(final) = state
        /\ state.loop_count = EvalPasses
        /\ (EvalPasses = 1 => state.loop_count = 1 /\ state.previous_subqueries = <<>>)

C3_Witness ==
    /\ Responded
    /\ Overall(state) >= MIN_OVERALL
    /\ Get(state.scores).replan_needed
    /\ state.loop_count = 2
    /\ MAX_LOOPS = 3

\* C4: after an Evaluate that leaves loop budget and a score below the
\* threshold, the run goes on and the next stage executed is Plan.
C4_Replans ==
    /\ []((JustRan("evaluator") /\ state.loop_count < MAX_LOOPS
             /\ Overall(state) < MIN_OVERALL)
           => (phase = "streaming" /\ node = "planner" /\ ENABLED Plan))
    /\ [][(JustRan("evaluator") /\ state.loop_count < MAX_LOOPS
             /\ Overall(state) < MIN_OVERALL)
           => Last(trace') = "planner"]_vars

C4_Witness ==
    /\ JustRan("planner")
    /\ state.loop_count = 2
    /\ Overall(state) = 6
    /\ ~Get(state.scores).replan_needed

\* C5: an Evaluate that reaches the cap with a score below the threshold
\* ends the run; the response keeps evaluation "no", the scores of that
\* pass and the final_answer the preceding Synthesize produced.
C5_CapKeepsNo ==
    /\ []((JustRan("evaluator") /\ state.loop_count = MAX_LOOPS
             /\ Overall(state) < MIN_OVERALL)
           => /\ Responded
              /\ state.evaluation = "no"
              /\ Get(response).evaluation = "no"
              /\ Get(response).rubric = state.scores
              /\ Get(response).final_answer = state.final_answer
              /\ Get(final) = state)
    /\ [][(trace' # trace /\ Last(trace') = "evaluator")
           => (JustRan("synthesizer") /\ state'.final_answer = state.final_answer)]_vars

C5_Witness ==
    /\ Responded
    /\ state.loop_count = MAX_LOOPS
    /\ MAX_LOOPS = 3
    /\ Overall(state) = 6
    /\ Get(response).evaluation = "no"

\* C6: the executed stages are Summarize once, then repetitions of Plan,
\* Retrieve, AnswerSubquestions, Synthesize, Evaluate in that order; the
\* run ends only directly after an Evaluate.
C6_StageOrder ==
    /\ \A i \in 1..Len(trace) :
          trace[i] = IF i = 1 THEN "summarizer" ELSE Cycle[((i - 2) % 5) + 1]
    /\ Responded => (Len(trace) >= 6 /\ JustRan("evaluator"))
    /\ phase = "streaming" =>
          node = IF trace = <<>> THEN "summarizer" ELSE Cycle[((Len(trace) - 1) % 5) + 1]

C6_Witness ==
    /\ Responded
    /\ Len(trace) = 11

\* C7: when every upstream call failed with a server error the run still
\* ends, at the loop cap, with the zero-score rubric and error markers.
C7_AllFail ==
    /\ allFailed => phase # "failed"
    /\ (allFailed /\ JustRan("evaluator")) =>
          (Responded <=> state.loop_count = MAX_LOOPS)
    /\ (allFailed /\ Responded) =>
          LET f == Get(final)
          IN  /\ f.loop_count = MAX_LOOPS
              /\ f.evaluation = "no"
              /\ Get(f.scores).overall = 0
              /\ Get(f.scores).replan_needed
              /\ f.summary = "Error: 500"
              /\ f.final_answer = "Error: 500"
              /\ f.rag_answer = "RAG Error: 500"
              /\ f.rag_summary = "RAG summary failed."
              /\ Get(response).evaluation = "no"
              /\ Get(response).rubric = f.scores

C7_Witness ==
    /\ allFailed
    /\ Responded
    /\ MAX_LOOPS = 3
    /\ state.loop_count = 3

\* C8: a verdict is never stored without scores; it is "yes" exactly when
\* scores.overall >= MIN_OVERALL and "no" otherwise; the response carries
\* "yes" or "no".
C8_Verdict ==
    LET ok(s) ==
            /\ s.evaluation \in {"", "yes", "no"}
            /\ s.evaluation # "" => IsSome(s.scores)
            /\ IsSome(s.scores) =>
                  s.evaluation = IF Overall(s) >= MIN_OVERALL THEN "yes" ELSE "no"
    IN  /\ ok(state)
        /\ IsSome(final) => ok(Get(final))
        /\ Responded => Get(response).evaluation \in {"yes", "no"}

C8_Witness ==
    /\ Responded
    /\ Overall(state) = MIN_OVERALL
    /\ state.evaluation = "yes"

\* C9: after every Evaluate, a passing score leaves feedback and
\* bad_subqueries empty; otherwise feedback is non-empty and bad_subqueries
\* is the current plan.
C9_Feedback ==
    JustRan("evaluator") =>
        IF Overall(state) >= MIN_OVERALL
        THEN state.feedback = "" /\ state.bad_subqueries = <<>>
        ELSE state.feedback # "" /\ state.bad_subqueries = state.subqueries

C9_Witness ==
    /\ JustRan("evaluator")
    /\ state.feedback = "Needs improvement"
    /\ state.bad_subqueries = <<"sq-b">>
    /\ state.loop_count = 2

\* C10 (as claimed): in every snapshot, after any stage of any iteration,
\* the keys of answers are among the current subqueries.
C10_Claimed ==
    IsSome(final) => DOMAIN Get(final).answers \subseteq Range(Get(final).subqueries)

\* C10 (amended): in every snapshot taken after AnswerSubquestions,
\* Synthesize or Evaluate, and so in the response, the keys of answers are
\* exactly the current subqueries; a snapshot taken after Plan or Retrieve
\* still carries the answers of the plan before.
C10_AfterAnswers ==
    /\ (\/ JustRan("answer_subqs") \/ JustRan("synthesizer") \/ JustRan("evaluator")) =>
          DOMAIN Get(final).answers = Range(Get(final).subqueries)
    /\ Responded =>
          DOMAIN Get(response).subquery_answers = Range(Get(response).subqueries)

C10_Witness ==
    /\ JustRan("answer_subqs")
    /\ state.loop_count = 1
    /\ state.previous_subqueries = <<"sq-a">>
    /\ DOMAIN state.answers = {"sq-b"}

\* C11: answer_subquestions returns an answers mapping whose keys are
\* exactly the distinct current subqueries; each key holds what the call
\* made for it ended with: the text of the completion, or the error marker
\* when that call failed, whatever the calls of the other subqueries did.
C11_OneAnswerEach ==
    (fn = "answer_subquestions" /\ IsSome(ret)) =>
        LET subqs == args.state.subqueries
            answers == Get(ret).answers
            own(i) == CHOOSE j \in 1..Len(subqs) :
                          /\ subqs[j] = subqs[i]
                          /\ \A m \in (j + 1)..Len(subqs) : subqs[m] # subqs[i]
            ended(i) == Last(args.calls[own(i)])
            marker(v) == v \in {"Gemini error: " \o e : e \in ErrKinds}
        IN  /\ DOMAIN answers = Range(subqs)
            /\ Get(ret).subqueries = subqs
            /\ \A i \in 1..Len(subqs) :
                  /\ answers[subqs[i]] = IF ended(i).kind = "ok" THEN ended(i).value
                                          ELSE "Gemini error: " \o ended(i).kind
                  /\ marker(answers[subqs[i]]) <=> ended(i).kind # "ok"

C11_Witness ==
    /\ fn = "answer_subquestions"
    /\ IsSome(ret)
    /\ args.state.subqueries = <<"sq-a", "sq-b">>
    /\ DOMAIN args.state.answers = {"sq-a"}
    /\ Len(args.calls[2]) = 3
    /\ Get(ret).answers["sq-a"] = "Gemini error: 500"
    /\ Get(ret).answers["sq-b"] = "answer 2"

\* the link a record is known by: link, or url when link is empty, stripped
LinkOf(r) ==
    Strip(IF GetStr(r, "link") # "" THEN GetStr(r, "link") ELSE GetStr(r, "url"))

\* C14: dedupe_by_link is idempotent: applied to its own result it returns
\* that result.
C14_Idempotent ==
    (fn = "dedupe_by_link" /\ IsSome(ret)) =>
        dedupe_by_link(Get(ret)) = Get(ret)

C14_Witness ==
    /\ fn = "dedupe_by_link"
    /\ IsSome(ret)
    /\ Len(args) = 3
    /\ Len(Get(ret)) = 2
    /\ GetStr(args[1], "link") = ""
    /\ Get(ret)[1] = args[1]
    /\ LinkOf(args[2]) = "u1"

\* C15: the result of dedupe_by_link is the subsequence of its input made
\* of the first occurrence of each link (link, or url when link is empty,
\* compared after strip()): the order is kept, later records of a seen link
\* are dropped, a record that has no link is no occurrence of one, and the
\* links of the result are pairwise distinct.
C15_FirstOccurrences ==
    (fn = "dedupe_by_link" /\ IsSome(ret)) =>
        LET out == Get(ret)
            first == {i \in 1..Len(args) :
                        /\ LinkOf(args[i]) # ""
                        /\ \A j \in 1..(i - 1) : LinkOf(args[j]) # LinkOf(args[i])}
            nth(n) == CHOOSE i \in first : Cardinality({j \in first : j <= i}) = n
        IN  /\ Len(out) = Cardinality(first)
            /\ \A n \in 1..Len(out) : out[n] = args[nth(n)]
            /\ \A a, b \in 1..Len(out) : a # b => LinkOf(out[a]) # LinkOf(out[b])

C15_Witness ==
    /\ fn = "dedupe_by_link"
    /\ IsSome(ret)
    /\ Len(args) = 3
    /\ GetStr(args[1], "link") = " u1 "
    /\ GetStr(args[2], "link") = "u2"
    /\ GetStr(args[3], "link") = "u1"
    /\ Get(ret) = <<args[1], args[2]>>

\* the executor has been applied on its own
Retrieved == fn = "executor" /\ IsSome(ret)

\* what the executor's loop appended for the arguments, before deduplication
Aggregated == executor_aggregate(args.state.subqueries, args.searches, 1)

\* the links handed to a worker for the i-th subquestion
Handed(i) == SubqStarted(args.searches[i])

\* C12: after Retrieve, with k = min(len(web_results),
\* MAX_SOURCES_FOR_CITATIONS), the record at position i of web_results has
\* n equal to its position for every position up to k and no record after
\* them has an n, so the indices are 1..k without gap or duplicate; they
\* number the deduplicated list: one record per distinct link aggregated.
C12_DenseIndices ==
    Retrieved =>
        LET wr == Get(ret).web_results
            k == IF Len(wr) < MAX_SOURCES_FOR_CITATIONS THEN Len(wr)
                 ELSE MAX_SOURCES_FOR_CITATIONS
        IN  /\ \A i \in 1..Len(wr) :
                  IF i <= k THEN "n" \in DOMAIN wr[i] /\ wr[i].n = i
                  ELSE "n" \notin DOMAIN wr[i]
            /\ \A a, b \in 1..Len(wr) : a # b => LinkOf(wr[a]) # LinkOf(wr[b])
            /\ Len(wr) = Cardinality({LinkOf(r) : r \in Range(Aggregated)} \ {""})

C12_Witness ==
    /\ Retrieved
    /\ Len(args.searches) = 2
    /\ Len(Handed(1)) = 1
    /\ args.searches[1].work[1].fetch = "none"
    /\ Len(Handed(2)) = 2
    /\ Len(Aggregated) = 4
    /\ Len(Get(ret).web_results) = 2
    /\ Get(ret).web_results[1].summary = "Failed to fetch page."
    /\ Get(ret).web_results[2].n = 2

\* C13 (as claimed): whatever the plan and the search results, the
\* web_results of the response built from the state Retrieve returns has at
\* most MAX_SOURCES_FOR_CITATIONS records and each of them carries an n.
C13_Claimed ==
    Retrieved =>
        LET wr == ClientResponse(Get(ret)).web_results
        IN  /\ Len(wr) <= MAX_SOURCES_FOR_CITATIONS
            /\ \A i \in 1..Len(wr) : "n" \in DOMAIN wr[i]

\* C16 (as claimed): when the search of a subquestion fails, web_results
\* holds exactly one placeholder record for that subquestion (its title is
\* the subquestion, it has no link), and every link the other searches
\* handed to a worker is still represented in web_results.
C16_Claimed ==
    Retrieved =>
        LET wr == Get(ret).web_results
            subqs == args.state.subqueries
        IN  \A i \in 1..Len(subqs) :
                args.searches[i].cse.kind = "error" =>
                    /\ Cardinality({j \in 1..Len(wr) :
                            wr[j].title = subqs[i] /\ GetStr(wr[j], "link") = ""}) = 1
                    /\ \A m \in 1..Len(subqs) : \A x \in 1..Len(Handed(m)) :
                          LinkOf(Handed(m)[x]) # "" =>
                              \E j \in 1..Len(wr) : LinkOf(wr[j]) = LinkOf(Handed(m)[x])

\* C17 (as claimed): every link handed to a fetch-and-summarize worker is
\* represented in web_results after Retrieve by a record of that link with
\* a non-empty summary, on every path through the worker.
C17_Claimed ==
    Retrieved =>
        LET wr == Get(ret).web_results
        IN  \A i \in 1..Len(args.searches) : \A x \in 1..Len(Handed(i)) :
                \E j \in 1..Len(wr) :
                    /\ LinkOf(wr[j]) = LinkOf(Handed(i)[x])
                    /\ GetStr(wr[j], "summary") # ""

\* the step is a call of the cache operation `name`
Called(name) == last'.op = name /\ last'.n = last.n + 1

\* the last put of key k was made with an explicit ttl > 0 and the key was
\* not overwritten, removed or cleared since
PutWithTtl(k) ==
    /\ IsSome(written[k])
    /\ IsSome(Get(written[k]).ttl)
    /\ Get(Get(written[k]).ttl) > 0

\* C18 (as claimed): after put(k, v, ttl) with ttl > 0, every get(k) made
\* before the expiration instant returns v; a get(k) made once the TTL has
\* elapsed returns absent, leaves no entry for k, and contains(k) is false.
C18_Claimed ==
    (last.op = "get" /\ PutWithTtl(last.key)) =>
        LET w == Get(written[last.key])
        IN  IF ~Due(w.expiration, now)
            THEN last.ret = Some(w.value)
            ELSE /\ last.ret = None
                 /\ last.key \notin CacheKeys(mc)
                 /\ ~contains(mc, last.key, now)

\* C18 (amended): after put(k, v, ttl) with ttl > 0, every get(k) made
\* before the expiration instant returns v and counts a hit, unless a put
\* of another key into the full cache has evicted k in between; a get(k)
\* made once the TTL has elapsed returns absent, leaves no entry for k,
\* counts a miss, and contains(k) is false afterwards.
C18_UntilEvicted ==
    /\ []((last.op = "get" /\ PutWithTtl(last.key)) =>
            LET w == Get(written[last.key])
            IN  IF ~Due(w.expiration, now)
                THEN last.key \notin evicted =>
                        (last.ret = Some(w.value) /\ contains(mc, last.key, now))
                ELSE /\ last.ret = None
                     /\ last.key \notin CacheKeys(mc)
                     /\ ~contains(mc, last.key, now))
    /\ [][(Called("get") /\ PutWithTtl(last'.key)) =>
            LET w == Get(written[last'.key])
                hit == ~Due(w.expiration, now) /\ last'.key \notin evicted
            IN  /\ mc'.statistics.hits = mc.statistics.hits + (IF hit THEN 1 ELSE 0)
                /\ mc'.statistics.misses = mc.statistics.misses + (IF hit THEN 0 ELSE 1)
                /\ mc'.statistics.size = Len(mc'.cache)]_vars

C18_Witness ==
    /\ last.op = "get"
    /\ last.ret = None
    /\ PutWithTtl(last.key)
    /\ last.key \notin evicted
    /\ Due(Get(written[last.key]).expiration, now)
    /\ mc.statistics.hits = 1
    /\ mc.statistics.misses = 1
    /\ mc.statistics.evictions = 0

\* the step is a put of a key that is not stored into a cache that holds
\* max_size entries
PutIntoFull ==
    /\ Called("put")
    /\ last'.key \notin CacheKeys(mc)
    /\ Len(mc.cache) = mc.max_size

\* no stored entry expires before the entry of key k
Nearest(c, k) ==
    \A j \in 1..Len(c.cache) : ~Sooner(c.cache[j].expiration, Entry(c, k).expiration)

\* the keys whose entries have expired at time t
ExpiredKeys(c, t) ==
    {c.cache[i].key : i \in {j \in 1..Len(c.cache) : Due(c.cache[j].expiration, t)}}

\* C19 (as claimed): a put of a new key into a cache that holds max_size
\* (>= 1) entries removes exactly one entry, one with the nearest
\* expiration, adds exactly 1 to the eviction counter, and stores the key.
C19_Claimed ==
    [][(PutIntoFull /\ mc.max_size >= 1) =>
        LET removed == CacheKeys(mc) \ CacheKeys(mc')
        IN  /\ Cardinality(removed) = 1
            /\ \A k \in removed : Nearest(mc, k)
            /\ mc'.statistics.evictions = mc.statistics.evictions + 1
            /\ last'.key \in CacheKeys(mc')]_vars

\* C19 (amended): a put of a new key into a cache that holds max_size
\* entries first purges the expired entries: when j >= 1 entries have
\* expired exactly those j are removed and the eviction counter grows by j;
\* when none has expired exactly one entry is removed, the one with the
\* nearest expiration (nothing when the cache is empty), and the counter
\* grows by 1. Every other entry is kept and the new key is stored.
C19_EvictsExpiredOrNearest ==
    [][PutIntoFull =>
        LET removed == CacheKeys(mc) \ CacheKeys(mc')
            expired == ExpiredKeys(mc, now)
        IN  /\ IF expired # {} THEN removed = expired
               ELSE IF mc.cache # <<>>
               THEN Cardinality(removed) = 1 /\ \A k \in removed : Nearest(mc, k)
               ELSE removed = {}
            /\ mc'.statistics.evictions = mc.statistics.evictions + Cardinality(removed)
            /\ \A k \in CacheKeys(mc) \ removed : Entry(mc', k) = Entry(mc, k)
            /\ CacheKeys(mc') = (CacheKeys(mc) \ removed) \cup {last'.key}
            /\ Len(mc'.cache) = Cardinality(CacheKeys(mc'))]_vars

C19_Witness ==
    /\ last.op = "put"
    /\ last.key = "k3"
    /\ mc.max_size = 2
    /\ evicted = {"k2"}
    /\ CacheKeys(mc) = {"k1", "k3"}
    /\ mc.cache[1].key = "k1"
    /\ mc.cache[1].expiration.inf
    /\ mc.statistics.evictions = 1

\* C20: on a cache built with max_size >= 1, after any sequence of put,
\* get, contains, remove and clear, at any time, the number of stored
\* entries is at most max_size (and no key is stored twice).
C20_Bounded ==
    mc.max_size >= 1 =>
        /\ Len(mc.cache) <= mc.max_size
        /\ Cardinality(CacheKeys(mc)) = Len(mc.cache)

C20_Witness ==
    /\ mc.max_size = 1
    /\ Len(mc.cache) = 1
    /\ mc.statistics.insertions = 3
    /\ mc.statistics.evictions = 2
    /\ Cardinality(evicted) = 2

\* C21: after every completed cache operation (lazy expiry and eviction
\* included) the size counter equals the number of stored entries, and the
\* copy get_stats returns holds the counters of that same state.
C21_SizeIsLength ==
    /\ mc.statistics.size = Len(mc.cache)
    /\ last.op = "get_stats" =>
          (last.ret = mc.statistics /\ last.ret.size = Len(mc.cache))

C21_Witness ==
    /\ last.op = "get_stats"
    /\ last.ret.size = 0
    /\ last.ret.insertions = 1
    /\ last.ret.misses = 1
    /\ last.ret.evictions = 0
    /\ \E k \in Keys : IsSome(written[k]) /\ k \notin CacheKeys(mc)

\* the last put of key k was made with ttl = 0 and the key was not
\* overwritten, removed, cleared or evicted for capacity since
StoredForever(k) ==
    /\ IsSome(written[k])
    /\ Get(written[k]).ttl = Some(0)
    /\ k \notin evicted

\* C23: an entry stored with put(k, v, ttl=0) has an unbounded expiration:
\* at any later time, until it is removed, cleared or evicted for capacity,
\* it is stored, get(k) returns v and contains(k) is true.
C23_Unbounded ==
    /\ \A k \in Keys : StoredForever(k) =>
          /\ k \in CacheKeys(mc)
          /\ Entry(mc, k).expiration = Never
          /\ Entry(mc, k).value = Get(written[k]).value
          /\ contains(mc, k, now)
    /\ (last.op = "get" /\ StoredForever(last.key)) =>
          last.ret = Some(Get(written[last.key]).value)
    /\ (last.op = "contains" /\ StoredForever(last.key)) => last.ret = TRUE

C23_Witness ==
    /\ now = MaxTime
    /\ last.op = "get"
    /\ StoredForever(last.key)
    /\ last.ret = Some("v1")
    /\ mc.statistics.hits = 1
    /\ mc.default_ttl = 1

\* C24 (as claimed): on a cache built with default ttl 0, an entry stored
\* by put(k, v) without a ttl never expires: a later get(k), the entry not
\* having been overwritten, removed, cleared or evicted, returns v.
C24_Claimed ==
    (/\ last.op = "get"
     /\ mc.default_ttl = 0
     /\ IsSome(written[last.key])
     /\ last.key \notin evicted) =>
        (Get(written[last.key]).ttl = None =>
            last.ret = Some(Get(written[last.key]).value))

\* the time at which the call of thread `th` read the clock first
ReadAt(th) ==
    IF th.pc \in {"put_cleanup", "get_check", "contains"} THEN now ELSE th.tread

\* the call of thread `th`, finished with the clock read at tread and at
\* tnow, run alone on the cache it found
Alone(th, tread, tnow) ==
    CASE th.op = "put" ->
            [mc |-> put_store(put_make_room(th.c0, th.key, tread), th.key, th.value,
                              put_expiration(th.c0, th.ttl, tnow)),
             ret |-> None]
      [] th.op = "get" -> get(th.c0, th.key, tread)
      [] th.op = "contains" -> [mc |-> th.c0, ret |-> contains(th.c0, th.key, tread)]
      [] th.op = "remove" -> remove(th.c0, th.key)

\* C22: the cache operations are atomic under concurrent callers. While a
\* thread is inside put, get, contains or remove no other thread changes
\* the cache (so an expiry check is never separated from its removal), and
\* when it returns, the contents, the statistics and the return value are
\* those of the same call run alone on the cache it found when it entered:
\* every interleaving equals the sequential order in which the threads
\* entered. At no time are there more than max_size entries.
C22_Atomic ==
    /\ [](Len(mc.cache) <= mc.max_size)
    /\ [][\A thr \in Threads :
            /\ (threads[thr].pc # "idle" /\ threads'[thr].pc = "idle") =>
                  LET alone == Alone(threads[thr], ReadAt(threads[thr]), now)
                  IN  mc' = alone.mc /\ threads'[thr].ret = alone.ret
            /\ (threads[thr].pc # "idle" /\ threads'[thr].pc = threads[thr].pc) => mc' = mc]_vars

C22_Witness ==
    /\ mc.max_size = 1
    /\ threads["t1"].pc = "idle"
    /\ threads["t1"].calls = 2
    /\ threads["t2"].pc = "put_store"
    /\ threads["t2"].key = "k2"
    /\ CacheKeys(threads["t2"].c0) = {"k1"}
    /\ mc.cache = <<>>
    /\ mc.statistics.evictions = 1
    /\ mc.statistics.misses = 1

\* what a call site stores from its completion
Produced(site, out) ==
    CASE site = "structured_summarizer" -> out.summary
      [] site = "planner" -> out.subqueries
      [] site = "answer_subquestions" -> out.answers["sq-a"]
      [] site = "synthesizer" -> out.final_answer
      [] site = "evaluator" -> Get(out.scores)
      [] site = "expand_and_summarize_web" -> out[1].summary

\* the stage-local placeholder of a call site for the error `err`
Placeholder(site, err) ==
    CASE site = "structured_summarizer" -> "Error: " \o err
      [] site = "planner" -> <<>>
      [] site = "answer_subquestions" -> "Gemini error: " \o err
      [] site = "synthesizer" -> "Error: " \o err
      [] site = "evaluator" -> EvalRubric(0, 0, 0, 0, TRUE, "Evaluation failed: " \o err)
      [] site = "expand_and_summarize_web" -> "Error: " \o err

\* the call site stored what call c did: its answer, or the placeholder
Stored(site, out, c) ==
    Produced(site, out) = IF c.kind = "ok" THEN c.value ELSE Placeholder(site, c.kind)

\* the first call, of at most MaxAttempts, that is not a rate-limit error
LastAttempt(script) ==
    CHOOSE k \in 1..MaxAttempts :
        /\ \A i \in 1..(k - 1) : script[i].kind = "429"
        /\ k = MaxAttempts \/ script[k].kind # "429"

\* C25: every completion call site (Summarize, Plan, each answer, Synthesize,
\* Evaluate, the page summarizer) makes at most 3 attempts; it makes another
\* attempt, after one fixed cool-down, only when the attempt failed with the
\* rate-limit signal and fewer than 2 retries were made; it never raises:
\* it returns with the answer of its last attempt or, when that failed,
\* with its stage-local error marker.
C25_ThreeAttempts ==
    IsSome(ret) =>
        LET k == LastAttempt(args.script)
        IN  /\ Get(ret).attempts = k
            /\ Get(ret).attempts <= 3
            /\ Get(ret).slept = sleep_backoff * (k - 1)
            /\ Stored(fn, Get(ret).out, args.script[k])

C25_Witness ==
    /\ fn = "synthesizer"
    /\ IsSome(ret)
    /\ \A i \in 1..3 : args.script[i].kind = "429"
    /\ args.script[4].kind = "ok"
    /\ Get(ret).attempts = 3
    /\ Get(ret).slept = 90
    /\ Get(ret).out.final_answer = "Error: 429"

\* the first call, of at most MaxAttempts, that answers
FirstAnswer(script) ==
    CHOOSE k \in 1..MaxAttempts :
        /\ \A i \in 1..(k - 1) : script[i].kind # "ok"
        /\ k = MaxAttempts \/ script[k].kind = "ok"

\* C26 (as claimed): a transient failure of any class at a completion call
\* site (rate limit, 5xx, connection error, timeout) is retried, up to the
\* attempt cap, before the stage stores its placeholder.
C26_Claimed ==
    IsSome(ret) =>
        LET k == FirstAnswer(args.script)
        IN  /\ Get(ret).attempts = k
            /\ Stored(fn, Get(ret).out, args.script[k])

\* C26 (amended): at a completion call site only a rate-limit failure is
\* retried, up to the attempt cap; a 5xx, a connection error or a timeout
\* makes the stage store its placeholder at once, without another attempt.
C26_OnlyRateLimitRetried ==
    IsSome(ret) =>
        LET failedAt == {i \in 1..MaxAttempts : args.script[i].kind \in WideErrKinds \ {"429"}}
            limitedAt == {i \in 1..(MaxAttempts - 1) : args.script[i].kind = "429"}
            made == Get(ret).attempts
        IN  /\ \A i \in failedAt : made <= i
            /\ (made \in failedAt) =>
                  Produced(fn, Get(ret).out) = Placeholder(fn, args.script[made].kind)
            /\ \A i \in limitedAt : made # i
            /\ args.script[made].kind = "ok" =>
                  Produced(fn, Get(ret).out) = args.script[made].value

C26_Witness ==
    /\ fn = "structured_summarizer"
    /\ IsSome(ret)
    /\ args.script[1].kind = "429"
    /\ args.script[2].kind = "timeout"
    /\ args.script[3].kind = "ok"
    /\ Get(ret).attempts = 2
    /\ Get(ret).out.summary = "Error: timeout"

\* a 429, a status >= 500 or a connection error
Retried(c) ==
    \/ c.kind = "response" /\ (c.status = 429 \/ c.status >= 500)
    \/ c.kind = "raises" /\ c.exc \in {"ConnectError", "ConnectTimeout"}

\* C27: fetch_url makes at most max_retries GETs for an allowed URL (none
\* for a URL that is not allowed). Each GET that meets a 429, a status
\* >= 500 or a connection error is followed by a sleep of
\* min(2 * 2^attempt, 45) seconds and, while attempts remain, by another
\* GET; the first GET that succeeds ends the call with that response, and
\* the first GET that meets another HTTP error or an unexpected error ends
\* it with None (so a first GET that succeeds, or fails with a 404, is the
\* only one). When every attempt was used the result is None. The call
\* always returns.
C27_FetchRetries ==
    IsSome(ret) =>
        LET r == Get(ret)
            n == args.max_retries
            ended == {i \in 1..n : ~Retried(args.gets[i])}
            k == IF ended = {} THEN n
                 ELSE CHOOSE i \in ended : \A j \in ended : i <= j
        IN  IF ~args.allowed THEN r.gets = 0 /\ r.response = None
            ELSE /\ r.gets = k
                 /\ r.gets <= n
                 /\ r.response =
                        IF args.gets[k].kind = "response" /\ args.gets[k].status < 400
                        THEN Some(args.gets[k]) ELSE None
                 /\ Len(r.sleeps) = IF ended = {} THEN n ELSE k - 1
                 /\ \A i \in 1..Len(r.sleeps) :
                        /\ r.sleeps[i] = Min(2 * Pow2(i - 1), 45)
                        /\ r.sleeps[i] <= 45

C27_Witness ==
    /\ IsSome(ret)
    /\ args.max_retries = MAX_RETRIES
    /\ args.gets[1] = Response(429)
    /\ args.gets[2] = Raises("ConnectError")
    /\ args.gets[3] = Response(404)
    /\ args.gets[4] = Response(200)
    /\ Get(ret).gets = 3
    /\ Get(ret).response = None
    /\ Get(ret).sleeps = <<2, 4>>

\* the repair call answered with text that is not valid JSON either
RepairInvalid(a) == a.raw = "notjson" /\ a.repair \in {"notjson", "notjson at 429"}

\* C28 (as claimed): in one Evaluate pass a raw response that is not valid
\* JSON triggers exactly one repair call; if the repaired text is invalid
\* too, no further completion call is issued and the pass ends with the
\* synthetic zero-score rubric (overall 0, replan_needed true).
C28_Claimed ==
    IsSome(ret) =>
        \A i \in 1..Get(ret).attempts :
            RepairInvalid(args.attempts[i]) =>
                /\ Get(ret).attempts = i
                /\ Get(ret).calls =
                      Cardinality(1..i) +
                      Cardinality({j \in 1..i : args.attempts[j].raw = "notjson"})
                /\ Get(Get(ret).out.scores).overall = 0
                /\ Get(Get(ret).out.scores).replan_needed

\* C29 (as claimed): every rubric stored in scores has coverage, grounding,
\* coherence and overall within [0,1] (0..10 tenths), whatever numbers the
\* JSON-completion service returns.
C29_Claimed ==
    (IsSome(ret) /\ IsSome(Get(ret).out.scores)) =>
        LET rubric == Get(Get(ret).out.scores)
        IN  \A f \in {"coverage", "grounding", "coherence", "overall"} :
                rubric[f] \in 0..10


UpstreamCalls == Len(request.responses)
Refreshes == Len(request.refreshed)
FirstIs401 == UpstreamCalls >= 1 /\ request.responses[1] = "401"

\* C30, as stated: a request makes at most two upstream calls and at most one
\* refresh, and every request whose first upstream call answers 401 makes
\* exactly one refresh followed by exactly one retry.
C30_Claimed ==
    request.n > 0 =>
        /\ UpstreamCalls <= 2
        /\ Refreshes <= 1
        /\ FirstIs401 => Refreshes = 1 /\ UpstreamCalls = 2

\* C30: whatever requests were handled before it, a request makes at most two
\* upstream calls and at most one refresh; it refreshes exactly when its first
\* call answers 401, and retries, once, exactly when that refresh yields a
\* token; a 401 from the retry ends the request with that 401.
C30_RefreshOnceRetryOnce ==
    request.n > 0 =>
        /\ UpstreamCalls <= 2
        /\ Refreshes <= 1
        /\ Refreshes = 1 <=> FirstIs401
        /\ UpstreamCalls = 2 <=> (FirstIs401 /\ request.refreshed[1] # "")
        /\ (UpstreamCalls = 2 /\ request.responses[2] = "401") => request.status = 401

\* the third request handled meets a 401, refreshes, retries and meets a 401 again
C30_Witness ==
    /\ request.n = 3
    /\ request.responses = <<"401", "401">>
    /\ request.refreshed = <<JWT_TOKEN>>
    /\ JWT_TOKEN # request.token
    /\ request.status = 401

RefreshFailed == FirstIs401 /\ request.refreshed = <<"">>

\* C31, as stated: a request whose credential refresh after a 401 yields no
\* token ends with an authentication error response, HTTP 401.
C31_Claimed == (request.n > 0 /\ RefreshFailed) => request.status = 401

\* the fan-out ran for every subquestion: the links of web_results are the
\* links the per-subquestion loop aggregated
FannedOut ==
    {LinkOf(r) : r \in Range(Get(ret).web_results)}
        = {LinkOf(r) : r \in Range(Aggregated)} \ {""}

\* the RAG call failed: rag_answer and rag_summary are error markers
RagFailureMarked ==
    args.rag.http # "ok" =>
        /\ Get(ret).rag_answer = "RAG Error: " \o args.rag.http
        /\ Get(ret).rag_summary = "RAG summary failed."

SummaryTimedOut == args.rag.http = "ok" /\ args.rag.timeout

\* C32, as stated: when the summary of the RAG answer times out, rag_summary
\* is the truncated prefix of rag_answer (its first 200 characters and an
\* ellipsis); when the RAG call fails, rag_answer and rag_summary are error
\* markers; either way the fan-out runs for every subquestion.
C32_Claimed ==
    Retrieved =>
        /\ SummaryTimedOut =>
              /\ Get(ret).rag_answer = args.rag.output_text
              /\ Get(ret).rag_summary = Slice200(Get(ret).rag_answer) \o "..."
        /\ RagFailureMarked
        /\ FannedOut

\* C32: the same, except that an empty rag_answer whose summary times out
\* gets the placeholder "No summary available" instead of a prefix.
C32_RagFallbacks ==
    Retrieved =>
        /\ SummaryTimedOut =>
              /\ Get(ret).rag_answer = args.rag.output_text
              /\ Get(ret).rag_summary =
                    IF Get(ret).rag_answer = "" THEN "No summary available"
                    ELSE Slice200(Get(ret).rag_answer) \o "..."
        /\ RagFailureMarked
        /\ FannedOut

\* the summary of a long answer timed out: the summary is the head of the
\* answer, and the two subquestions were still searched and fetched
C32_Witness ==
    /\ Retrieved
    /\ SummaryTimedOut
    /\ Get(ret).rag_answer = LongAnswer
    /\ Get(ret).rag_summary = LongAnswerHead \o "..."
    /\ Len(args.state.subqueries) = 2
    /\ Len(Get(ret).web_results) = 2

\* the RAG call failed and the fan-out still produced records
C32_AfterFailure ==
    /\ Retrieved
    /\ args.rag.http = "timeout"
    /\ Len(Get(ret).web_results) = 2

\* the fields of QueryState a stage assigns
Writes(n) ==
    CASE n = "summarizer" -> {"summary"}
      [] n = "planner" -> {"subqueries", "previous_subqueries"}
      [] n = "executor" -> {"rag_answer", "rag_summary", "web_results"}
      [] n = "answer_subqs" -> {"answers"}
      [] n = "synthesizer" -> {"final_answer"}
      [] n = "evaluator" -> {"loop_count", "scores", "evaluation", "feedback", "bad_subqueries"}

\* C33: a step of the run that executes a stage leaves every field of the
\* state outside that stage's output fields as it was; question is an output
\* field of no stage, so no stage changes it.
C33_Frame ==
    [][trace' # trace =>
          /\ DOMAIN state' = DOMAIN state
          /\ \A f \in DOMAIN state \ Writes(Last(trace')) : state'[f] = state[f]]_vars

\* the evaluator of a second iteration has run: every stage has written its
\* fields, the planner and the evaluator over values of the first iteration
C33_Witness ==
    /\ Len(trace) = 11
    /\ Last(trace) = "evaluator"
    /\ state.loop_count = 2
    /\ state.previous_subqueries # <<>>
    /\ state.bad_subqueries # <<>>
    /\ state.question # ""

Ran(n) == Len(trace) > 0 /\ Last(trace) = n

\* the step is a Plan pass whose completion calls failed
PlanFailed ==
    /\ trace' = Append(trace, "planner")
    /\ \E calls \in PlanCalls : ~RetryLoop(calls, 0).ok /\ state' = planner(state, calls)

\* the iteration is working on an empty plan
EmptyPlan == state.subqueries = <<>> /\ phase = "streaming"

C35_Claimed ==
    (Running("planner") /\ Ran("evaluator")) => planned \subseteq planner_avoid(state)

\* how often record r occurs in the sequence s
Count(s, r) == Cardinality({k \in 1..Len(s) : s[k] = r})

\* the records the workers have put so far
PutRecords == [k \in 1..Len(exec.put) |-> exec.put[k].rec]

RECURSIVE LaunchedFrom(_)
LaunchedFrom(i) ==
    IF i > Len(args.searches) THEN 0
    ELSE Len(Handed(i)) + LaunchedFrom(i + 1)

RECURSIVE PlaceholdersFrom(_)
PlaceholdersFrom(i) ==
    IF i > Len(args.searches) THEN 0
    ELSE (IF args.searches[i].failAt # 0 THEN 1 ELSE 0) + PlaceholdersFrom(i + 1)

\* C37, as stated: every launched worker puts exactly one record on the
\* Queue, whatever path it takes, so the aggregate before deduplication
\* holds one record per launched worker (next to the placeholders of failed
\* launches).
C37_Claimed ==
    Retrieved =>
        /\ \A i \in 1..Len(args.searches) : \A x \in 1..Len(Handed(i)) :
              Len(SubqPuts(args.searches[i])[x]) = 1
        /\ Len(Aggregated) = LaunchedFrom(1) + PlaceholdersFrom(1)

\* C38: at most SUBQ_SEARCH_COUNT workers are alive at any moment and all of
\* them belong to the subquestion the executor is working on; whenever the
\* executor is about to search for a subquestion no worker is running and
\* the Queue is empty; and the aggregate lists the records in the order of
\* their subquestions.
C38_OneSubqueryAtATime ==
    /\ Cardinality(Alive(exec)) <= SUBQ_SEARCH_COUNT
    /\ Alive(exec) \subseteq Current(exec)
    /\ exec.pc \in {"search", "returned"} => (Alive(exec) = {} /\ exec.q = <<>>)
    /\ \A a, b \in 1..Len(exec.origin) : a < b => exec.origin[a] <= exec.origin[b]

\* the record of the first subquestion is in the aggregate and the
\* SUBQ_SEARCH_COUNT workers of the second are all running
C38_Witness ==
    /\ exec.i = 2
    /\ exec.origin = <<1>>
    /\ Cardinality(Alive(exec)) = SUBQ_SEARCH_COUNT
    /\ Len(exec.links) = SUBQ_SEARCH_COUNT

\* C39: a run executes at most 1 + 5 * MAX_LOOPS stages, fewer than the
\* step limit handed to the engine, so the engine never stops it; a run that
\* has responded ended after an Evaluate pass that reached the loop cap or
\* the score threshold.
C39_BelowStepLimit ==
    /\ Len(trace) <= 1 + 5 * MAX_LOOPS
    /\ 1 + 5 * MAX_LOOPS < recursion_limit(MAX_LOOPS)
    /\ phase # "failed"
    /\ phase = "responded" =>
          /\ Ran("evaluator")
          /\ \/ state.loop_count >= MAX_LOOPS
             \/ Get(state.scores).overall >= MIN_OVERALL

\* a run with the largest loop budget used every iteration and ended
\* through the loop cap with a score below the threshold
C39_Witness ==
    /\ MAX_LOOPS = MaxLoopsCap
    /\ phase = "responded"
    /\ Len(trace) = 1 + 5 * MAX_LOOPS
    /\ state.loop_count = MAX_LOOPS
    /\ Get(state.scores).overall < MIN_OVERALL

\* the unexpired entries of cache c at time t: its contents
Contents(c, t) == {e \in Range(c.cache) : ~Due(e.expiration, t)}

\* the step handles a request
Served == request'.n = request.n + 1

====
